---- MODULE Spec2Model ----
(***************************************************************************)
(* Extract2MD: the extraction-to-Markdown pipeline.                        *)
(*                                                                         *)
(* Texts are sequences of characters; a character is a one-token string.   *)
(* Glyphs outside ASCII are written by their code point ("FB01" is the fi  *)
(* ligature, "00AD" the soft hyphen, "00A0" the no-break space).           *)
(*                                                                         *)
(* The specifications share the module:                                    *)
(*   SpecText   scenario 1/2 at the level of the text: construction of the *)
(*              converter, extraction, _postProcessText, _convertToMarkdown*)
(*   SpecSynth  _convertToMarkdown, one input line per step                *)
(*   SpecCall   the scenario calls at the level of their awaits: the two   *)
(*              extraction adapters, the recognition worker, the inference *)
(*              engine and _cleanup                                        *)
(*   SpecParse  the rewrite after generate: OutputParser.parse on the raw  *)
(*              response                                                   *)
(*   SpecPrompt SystemPrompts.buildSystemPrompt                            *)
(*   SpecLegacy the legacy converter's llmRewrite and unloadLLM            *)
(*   SpecEngine WebLLMEngine: initialize, generate, generateStream, cleanup*)
(*   SpecPair   two scenario calls in flight at the same time              *)
(*   SpecCallFair is SpecCall with the timers of the termination races     *)
(* The progress sink is taken to return normally (it is the caller's       *)
(* function and the default is a no-op), except inside the release of the  *)
(* engine, where its throwing is what makes the awaited release reject.    *)
(***************************************************************************)
EXTENDS Integers, Sequences, FiniteSets, TLC

VARIABLES
    \* SpecText
    tscenario, tpc, rawText, rules, splitPascalCase, cleaned, markdown, progress,
    \* SpecSynth
    spc, inputLines, i, markdownOutputLines, currentParagraphCollector,
    inPotentialTableBlock, potentialTableBlockLines, finalMarkdown,
    \* SpecCall
    scenario, file, config, numPages, orch, quick, ocr, llm,
    \* SpecParse
    ppc, rawOutput, cleanedOutput,
    \* SpecPrompt
    bpc, scenarioType, customization, systemPrompt,
    \* SpecLegacy
    lpc, webllmApi, llmModelLibUrl, chatModule, llmInitialized, loaded, request, calls,
    lastCall,
    \* SpecEngine
    epc, engine, isInitialized, currentModelId, defaultModel, customModelConfig,
    createCalls, completions, target, outcome, engineCalls,
    \* SpecPair
    converters, workerSrc, tesseractWorkers, webllmEngines

textVars == <<tscenario, tpc, rawText, rules, splitPascalCase, cleaned, markdown, progress>>
synthVars == <<spc, inputLines, i, markdownOutputLines, currentParagraphCollector,
               inPotentialTableBlock, potentialTableBlockLines, finalMarkdown>>
callVars == <<scenario, file, config, numPages, orch, quick, ocr, llm>>
parseVars == <<ppc, rawOutput, cleanedOutput>>
promptVars == <<bpc, scenarioType, customization, systemPrompt>>
legacyVars == <<lpc, webllmApi, llmModelLibUrl, chatModule, llmInitialized, loaded,
                request, calls, lastCall>>
engineVars == <<epc, engine, isInitialized, currentModelId, defaultModel,
                customModelConfig, createCalls, completions, target, outcome, engineCalls>>
pairVars == <<converters, workerSrc, tesseractWorkers, webllmEngines>>
vars == <<textVars, synthVars, callVars, parseVars, promptVars, legacyVars, engineVars,
          pairVars>>

(***************************************************************************)
(* Bounds of the model.                                                    *)
(***************************************************************************)
MaxRawLen == 3
MaxRules == 2
MaxLines == 4
MaxPages == 2
MaxLongLines == 3
\* Pieces of one model response.
MaxPieces == 5
\* Characters of a prompt customization.
MaxCustomLen == 3
\* Calls of llmRewrite and unloadLLM on one legacy converter.
MaxLegacyCalls == 3
\* Scenario calls in flight at the same time.
MaxCalls == 2

(***************************************************************************)
(* Characters.                                                             *)
(***************************************************************************)
NL == "\n"
CR == "\r"
SP == " "

UpperChars == {"A", "B"}
LowerChars == {"a", "b", "f", "i", "l"}
DigitChars == {"1"}
SentencePunct == {".", ",", ";", ":", "!", "?"}
\* JavaScript's \s, which is also what String.prototype.trim strips.
WhiteSpace == {SP, NL, CR, "\t", "00A0", "2003", "3000"}

IsWS(c) == c \in WhiteSpace

\* /\S/.test(s)
HasNonWS(s) == \E k \in 1..Len(s) : ~IsWS(s[k])

Drop(s, n) == SubSeq(s, n + 1, Len(s))
Take(s, n) == SubSeq(s, 1, n)

\* The least position of s that is in at, less one; all of s when there is none.
LengthBefore(s, at) ==
    IF at = {} THEN Len(s) ELSE (CHOOSE k \in at : \A j \in at : k <= j) - 1

\* The number of leading characters of s that are in cls.
RunLen(s, cls) == LengthBefore(s, {k \in 1..Len(s) : s[k] \notin cls})

TrimStart(s) == Drop(s, RunLen(s, WhiteSpace))

TrimEnd(s) ==
    LET kept == {k \in 1..Len(s) : ~IsWS(s[k])}
    IN IF kept = {} THEN <<>>
       ELSE Take(s, CHOOSE k \in kept : \A j \in kept : j <= k)

Trim(s) == TrimEnd(TrimStart(s))

\* Array.prototype.join
RECURSIVE Join(_, _)
Join(ls, sep) ==
    IF ls = <<>> THEN <<>>
    ELSE IF Len(ls) = 1 THEN ls[1]
    ELSE ls[1] \o sep \o Join(Tail(ls), sep)

\* The number of leading characters of s that are not c.
RunLenNot(s, c) == LengthBefore(s, {k \in 1..Len(s) : s[k] = c})

\* String.prototype.split(/\n/): always at least one piece.
RECURSIVE SplitLines(_)
SplitLines(s) ==
    LET n == RunLenNot(s, NL)
    IN IF n = Len(s) THEN <<s>>
       ELSE <<Take(s, n)>> \o SplitLines(Drop(s, n + 1))

(***************************************************************************)
(* _postProcessText: the normalization rule engine.                        *)
(*                                                                         *)
(* A rule is a record: hasFind and replaceIsString are what the guard of   *)
(* the loop tests (rule.find and typeof rule.replace being string);         *)
(* isRegExp is (rule.find instanceof RegExp); form says how the pattern    *)
(* matches:                                                                *)
(*   "each"     a global character class, /[..]/g                          *)
(*   "runs"     a global run of a character class, /[..]+/g                *)
(*   "pascal1"  /([A-Z][a-z]+)([A-Z][a-z]+)/g with '$1 $2'                 *)
(*   "pascal2"  /([a-z])([A-Z][a-z]+)/g with '$1 $2'                       *)
(*   "literal"  a string pattern: String.prototype.replace replaces the    *)
(*              first occurrence only                                      *)
(***************************************************************************)
Rule(isRe, form, cls, lit, rep) ==
    [hasFind |-> TRUE, replaceIsString |-> TRUE, isRegExp |-> isRe,
     form |-> form, cls |-> cls, lit |-> lit, replace |-> rep]

BuiltinRules ==
    << Rule(TRUE, "each", {"FB00"}, <<>>, <<"f", "f">>),
       Rule(TRUE, "each", {"FB01"}, <<>>, <<"f", "i">>),
       Rule(TRUE, "each", {"FB02"}, <<>>, <<"f", "l">>),
       Rule(TRUE, "each", {"FB03"}, <<>>, <<"f", "f", "i">>),
       Rule(TRUE, "each", {"FB04"}, <<>>, <<"f", "f", "l">>),
       Rule(TRUE, "each", {"2018", "2019"}, <<>>, <<"'">>),
       Rule(TRUE, "each", {"201C", "201D"}, <<>>, <<"\"">>),
       Rule(TRUE, "each", {"2022", "2023", "25E6", "2043", "2219", "25CF", "25CB",
                           "2981", "2619", "2765"}, <<>>, <<"-">>),
       Rule(TRUE, "each", {"2013", "2014"}, <<>>, <<"-">>),
       Rule(TRUE, "each", {"00AD"}, <<>>, <<>>),
       Rule(TRUE, "runs", WhiteSpace, <<>>, <<SP>>) >>

PascalCaseRules ==
    << Rule(TRUE, "pascal1", {}, <<>>, <<SP>>),
       Rule(TRUE, "pascal2", {}, <<>>, <<SP>>) >>

\* A faulty rule list: the soft hyphen is turned into an en dash, which an
\* earlier rule rewrites.
DefaultRulesHyphenToDash(split) ==
    [k \in 1..Len(BuiltinRules) |->
        IF BuiltinRules[k].cls = {"00AD"}
        THEN [BuiltinRules[k] EXCEPT !.replace = <<"2013">>]
        ELSE BuiltinRules[k]]

\* A faulty rule list: the closing whitespace rule is left out, so line
\* breaks and runs of blanks survive normalization.
DefaultRulesKeepWhiteSpace(split) ==
    SubSeq(BuiltinRules, 1, Len(BuiltinRules) - 1)
        \o (IF split THEN PascalCaseRules ELSE <<>>)

DefaultRules(split) ==
    IF split THEN BuiltinRules \o PascalCaseRules ELSE BuiltinRules

\* text.replace(/[cls]/g, rep)
RECURSIVE ReplaceEach(_, _, _)
ReplaceEach(s, cls, rep) ==
    IF s = <<>> THEN <<>>
    ELSE (IF Head(s) \in cls THEN rep ELSE <<Head(s)>>) \o ReplaceEach(Tail(s), cls, rep)

\* text.replace(/[cls]+/g, rep)
RECURSIVE ReplaceRuns(_, _, _)
ReplaceRuns(s, cls, rep) ==
    IF s = <<>> THEN <<>>
    ELSE IF Head(s) \in cls
         THEN rep \o ReplaceRuns(Drop(s, RunLen(s, cls)), cls, rep)
         ELSE <<Head(s)>> \o ReplaceRuns(Tail(s), cls, rep)

\* text.replace(/([A-Z][a-z]+)([A-Z][a-z]+)/g, '$1 $2'); [a-z]+ is greedy and is
\* followed by a capital, so the longest run is the only match.
RECURSIVE SplitPascal1(_)
SplitPascal1(s) ==
    IF s = <<>> THEN <<>>
    ELSE LET l1 == IF Head(s) \in UpperChars THEN RunLen(Tail(s), LowerChars) ELSE 0
             rest == Drop(s, 1 + l1)
             l2 == IF l1 > 0 /\ rest # <<>> /\ Head(rest) \in UpperChars
                   THEN RunLen(Tail(rest), LowerChars) ELSE 0
         IN IF l2 > 0
            THEN Take(s, 1 + l1) \o <<SP>> \o Take(rest, 1 + l2)
                 \o SplitPascal1(Drop(rest, 1 + l2))
            ELSE <<Head(s)>> \o SplitPascal1(Tail(s))

\* text.replace(/([a-z])([A-Z][a-z]+)/g, '$1 $2')
RECURSIVE SplitPascal2(_)
SplitPascal2(s) ==
    IF s = <<>> THEN <<>>
    ELSE LET l == IF Len(s) >= 3 /\ s[1] \in LowerChars /\ s[2] \in UpperChars
                  THEN RunLen(Drop(s, 2), LowerChars) ELSE 0
         IN IF l > 0
            THEN <<s[1], SP>> \o SubSeq(s, 2, 2 + l) \o SplitPascal2(Drop(s, 2 + l))
            ELSE <<Head(s)>> \o SplitPascal2(Tail(s))

IsPrefix(p, s) == Len(p) <= Len(s) /\ Take(s, Len(p)) = p

\* text.replace(lit, rep) with a string pattern: the first occurrence.
RECURSIVE ReplaceFirst(_, _, _)
ReplaceFirst(s, lit, rep) ==
    IF Len(s) < Len(lit) THEN s
    ELSE IF IsPrefix(lit, s) THEN rep \o Drop(s, Len(lit))
    ELSE <<Head(s)>> \o ReplaceFirst(Tail(s), lit, rep)

\* cleanedText.replace(rule.find, rule.replace)
ApplyRule(s, rule) ==
    CASE rule.form = "each" -> ReplaceEach(s, rule.cls, rule.replace)
      [] rule.form = "runs" -> ReplaceRuns(s, rule.cls, rule.replace)
      [] rule.form = "pascal1" -> SplitPascal1(s)
      [] rule.form = "pascal2" -> SplitPascal2(s)
      [] rule.form = "literal" -> ReplaceFirst(s, rule.lit, rule.replace)

RECURSIVE ApplyRules(_, _)
ApplyRules(s, rs) ==
    IF rs = <<>> THEN s ELSE ApplyRules(ApplyRule(s, Head(rs)), Tail(rs))

\* rule.find && typeof rule.replace === "string"
RuleIsUsable(rule) == rule.hasFind /\ rule.replaceIsString

IsUnicodeReplacement(rule) == RuleIsUsable(rule) /\ ~rule.isRegExp
IsRegexReplacement(rule) == RuleIsUsable(rule) /\ rule.isRegExp

\* .replace(/\r\n/g, '\n')
RECURSIVE ReplaceCRLF(_)
ReplaceCRLF(s) ==
    IF s = <<>> THEN <<>>
    ELSE IF Len(s) >= 2 /\ s[1] = CR /\ s[2] = NL THEN <<NL>> \o ReplaceCRLF(Drop(s, 2))
    ELSE <<Head(s)>> \o ReplaceCRLF(Tail(s))

\* .replace(/\n{3,}/g, '\n\n')
RECURSIVE CollapseNewlines(_)
CollapseNewlines(s) ==
    IF s = <<>> THEN <<>>
    ELSE LET n == RunLen(s, {NL})
         IN IF n >= 3 THEN <<NL, NL>> \o CollapseNewlines(Drop(s, n))
            ELSE IF n > 0 THEN Take(s, n) \o CollapseNewlines(Drop(s, n))
            ELSE LET m == RunLenNot(s, NL)
                 IN Take(s, m) \o CollapseNewlines(Drop(s, m))

\* A faulty final normalization, which does not trim.
UntrimmedNormalization(s) == CollapseNewlines(ReplaceCRLF(s))

FinalNormalization(s) == Trim(CollapseNewlines(ReplaceCRLF(s)))

PostProcessText(text, split, customRules) ==
    IF text = <<>> THEN <<>>
    ELSE LET allRules == DefaultRules(split) \o customRules
             unicodeReplacements == SelectSeq(allRules, IsUnicodeReplacement)
             regexReplacements == SelectSeq(allRules, IsRegexReplacement)
         IN FinalNormalization(
                ApplyRules(ApplyRules(text, unicodeReplacements), regexReplacements))

(***************************************************************************)
(* _convertToMarkdown: the Markdown synthesis engine.                      *)
(*                                                                         *)
(* The state of the loop is a record st:                                   *)
(*   i      the index of the current line (1-based here, 0-based in the    *)
(*          source)                                                        *)
(*   out    markdownOutputLines                                            *)
(*   para   currentParagraphCollector                                      *)
(*   table  potentialTableBlockLines                                       *)
(*   inTable inPotentialTableBlock                                         *)
(***************************************************************************)
ShortLineLimit == 80
AllCapsMinLength == 2
ColumnsMinLength == 10

\* Three backticks (U+0060).
Fence == <<"0060", "0060", "0060">>
HeadingMark == <<"#", SP>>

\* A faulty separator, which adds nothing.
NoSeparatorLine(outputLines) == outputLines

\* _addSeparatorLine
AddSeparatorLine(outputLines) ==
    IF Len(outputLines) > 0 /\ outputLines[Len(outputLines)] # <<>>
    THEN Append(outputLines, <<>>)
    ELSE outputLines

\* potentialTableBlockLines.map(l => l.trimEnd())
RECURSIVE MapTrimEnd(_)
MapTrimEnd(ls) ==
    IF ls = <<>> THEN <<>> ELSE <<TrimEnd(Head(ls))>> \o MapTrimEnd(Tail(ls))

\* A faulty flush, which pushes the last collected line only.
FlushCurrentParagraphLastLine(st) ==
    IF Len(st.para) > 0
    THEN [st EXCEPT !.out = AddSeparatorLine(Append(@, Trim(st.para[Len(st.para)]))),
                    !.para = <<>>]
    ELSE st

\* A faulty flush, which pushes the paragraph without its separator.
FlushCurrentParagraphUnseparated(st) ==
    IF Len(st.para) > 0
    THEN [st EXCEPT !.out = Append(@, Trim(Join(st.para, <<SP>>))), !.para = <<>>]
    ELSE st

\* flushCurrentParagraph
FlushCurrentParagraph(st) ==
    IF Len(st.para) > 0
    THEN [st EXCEPT !.out = AddSeparatorLine(Append(@, Trim(Join(st.para, <<SP>>)))),
                    !.para = <<>>]
    ELSE st

\* A faulty flush, which fences a buffer of one line as well.
FlushPotentialTableBlockAlwaysFenced(st) ==
    LET flushed ==
            IF Len(st.table) > 0
            THEN [st EXCEPT
                    !.out = AddSeparatorLine(@ \o <<Fence>> \o MapTrimEnd(st.table)
                                               \o <<Fence>>),
                    !.table = <<>>]
            ELSE st
    IN [flushed EXCEPT !.inTable = FALSE]

FlushPotentialTableBlock(st) ==
    LET flushed ==
            IF Len(st.table) > 0
            THEN [st EXCEPT
                    !.out = AddSeparatorLine(
                                IF Len(st.table) >= 2
                                THEN @ \o <<Fence>> \o MapTrimEnd(st.table) \o <<Fence>>
                                ELSE Append(@, Trim(Join(st.table, <<SP>>)))),
                    !.table = <<>>]
            ELSE st
    IN [flushed EXCEPT !.inTable = FALSE]

\* A faulty pair of flushes, which leaves the table/code buffer unflushed.
FlushParagraphOnly(st) == FlushCurrentParagraph(st)

\* if (inPotentialTableBlock) flushPotentialTableBlock(); flushCurrentParagraph();
FlushBoth(st) ==
    FlushCurrentParagraph(IF st.inTable THEN FlushPotentialTableBlock(st) ELSE st)

\* A faulty limit, one character too low.
IsShortLineOffByOne(trimmedLine) ==
    Len(trimmedLine) > 0 /\ Len(trimmedLine) < ShortLineLimit - 1

IsShortLine(trimmedLine) == Len(trimmedLine) > 0 /\ Len(trimmedLine) < ShortLineLimit

\* isShortLine && !/[.,;:!?]$/.test(trimmedLine)
NoPunctuationEnd(trimmedLine) ==
    IsShortLine(trimmedLine) /\ trimmedLine[Len(trimmedLine)] \notin SentencePunct

\* /^[A-Z\s\d\W]*[A-Z][A-Z\s\d\W]*$/ admits every character but a-z and "_".
IsAllCapsLine(trimmedLine) ==
    /\ Len(trimmedLine) > AllCapsMinLength
    /\ Len(trimmedLine) < ShortLineLimit
    /\ \A k \in 1..Len(trimmedLine) : trimmedLine[k] \notin LowerChars \cup {"_"}
    /\ \E k \in 1..Len(trimmedLine) : trimmedLine[k] \in UpperChars
    /\ ~(\A k \in 1..Len(trimmedLine) : trimmedLine[k] \in DigitChars)

\* A faulty test: the end of the input does not count.
NextLineIsBlank(lines, k) ==
    k < Len(lines) /\ Trim(lines[k + 1]) = <<>>

\* i + 1 === inputLines.length || inputLines[i + 1].trim() is empty
NextLineIsBlankOrEndOfFile(lines, k) ==
    k = Len(lines) \/ Trim(lines[k + 1]) = <<>>

IsHeading(lines, k) ==
    LET trimmedLine == Trim(lines[k])
    IN \/ IsAllCapsLine(trimmedLine)
       \/ /\ IsShortLine(trimmedLine)
          /\ NoPunctuationEnd(trimmedLine)
          /\ NextLineIsBlankOrEndOfFile(lines, k)
          /\ Len(trimmedLine) > 1

\* /\S\s{2,}\S/.test(originalLine)
HasMultipleSpacesBetweenWords(line) ==
    \E a, b \in 1..Len(line) :
        /\ b >= a + 3
        /\ ~IsWS(line[a])
        /\ ~IsWS(line[b])
        /\ \A k \in (a + 1)..(b - 1) : IsWS(line[k])

\* The number of pieces of originalLine.split(/\s{2,}/), less one: the maximal
\* runs of two or more whitespace characters.
WideGaps(line) ==
    Cardinality({a \in 1..(Len(line) - 1) :
                    /\ IsWS(line[a])
                    /\ IsWS(line[a + 1])
                    /\ (a = 1 \/ ~IsWS(line[a - 1]))})

\* originalLine.split(/\s{2,}/).length > 2 && originalLine.length > 10
HasMultipleColumnsBySpaces(line) ==
    WideGaps(line) + 1 > 2 /\ Len(line) > ColumnsMinLength

IsTableCandidate(line) ==
    HasMultipleSpacesBetweenWords(line) \/ HasMultipleColumnsBySpaces(line)

\* A faulty table branch, which leaves the collected paragraph unflushed.
PushTableLineKeepsParagraph(st, originalLine) ==
    [st EXCEPT !.inTable = TRUE, !.table = Append(@, originalLine)]

\* flushCurrentParagraph(); inPotentialTableBlock = true;
\* potentialTableBlockLines.push(originalLine);
PushTableLine(st, originalLine) ==
    [FlushCurrentParagraph(st) EXCEPT !.inTable = TRUE,
                                      !.table = Append(@, originalLine)]

\* The body of the for loop for line st.i; the result carries the next index.
ProcessLine(st, lines) ==
    LET originalLine == lines[st.i]
        trimmedLine == Trim(originalLine)
    IN IF trimmedLine = <<>>
       THEN [FlushBoth(st) EXCEPT !.i = st.i + 1]
       ELSE IF IsHeading(lines, st.i)
       THEN LET f == FlushBoth(st)
                skip == /\ NextLineIsBlankOrEndOfFile(lines, st.i)
                        /\ st.i < Len(lines)
                        /\ lines[st.i + 1] # <<>>
                        /\ Trim(lines[st.i + 1]) = <<>>
            IN [f EXCEPT !.out = AddSeparatorLine(Append(@, HeadingMark \o trimmedLine)),
                         !.i = IF skip THEN st.i + 2 ELSE st.i + 1]
       ELSE IF IsTableCandidate(originalLine)
       THEN [PushTableLine(st, originalLine) EXCEPT !.i = st.i + 1]
       ELSE LET f == IF st.inTable THEN FlushPotentialTableBlock(st) ELSE st
            IN [f EXCEPT !.para = Append(@, trimmedLine), !.i = st.i + 1]

\* The loop of _normalizeMarkdownNewlines: at most one consecutive empty line.
RECURSIVE LimitEmptyLines(_, _)
LimitEmptyLines(lines, consecutiveEmptyLines) ==
    IF lines = <<>> THEN <<>>
    ELSE IF Trim(Head(lines)) = <<>>
         THEN (IF consecutiveEmptyLines + 1 <= 1 THEN << <<>> >> ELSE <<>>)
              \o LimitEmptyLines(Tail(lines), consecutiveEmptyLines + 1)
         ELSE <<TrimEnd(Head(lines))>> \o LimitEmptyLines(Tail(lines), 0)

\* normalizedLines.join('\n')
JoinLines(lines) == Join(lines, <<NL>>)

\* A faulty normalization: no limit on empty lines, no final collapse, and a
\* blank line put between all lines.
JoinedWithBlankLines(lines) == Join(lines, <<NL, NL>>)

NormalizeMarkdownNewlines(lines) ==
    Trim(CollapseNewlines(JoinLines(LimitEmptyLines(lines, 0))))

SynthStart ==
    [i |-> 1, out |-> <<>>, para |-> <<>>, table |-> <<>>, inTable |-> FALSE]

RECURSIVE RunLines(_, _)
RunLines(st, lines) ==
    IF st.i > Len(lines) THEN st ELSE RunLines(ProcessLine(st, lines), lines)

ConvertToMarkdown(text) ==
    LET lines == SplitLines(text)
    IN NormalizeMarkdownNewlines(FlushBoth(RunLines(SynthStart, lines)).out)

(***************************************************************************)
(* The legacy converter's synthesis, LegacyExtract2MDConverter             *)
(* ._convertToMarkdownLogic (src/index.js), translated from its own code.  *)
(* It shares with the new converter the tests on one line, which are the   *)
(* same regular expressions, and nothing of the loop, the flushes, the     *)
(* separator or the normalization.                                         *)
(***************************************************************************)
\* LegacyExtract2MDConverter._addSeparatorLine
LegacyAddSeparatorLine(outputLines) ==
    IF Len(outputLines) > 0 /\ outputLines[Len(outputLines)] # <<>>
    THEN outputLines \o << <<>> >>
    ELSE outputLines

\* flushCurrentParagraph of _convertToMarkdownLogic
LegacyFlushCurrentParagraph(st) ==
    IF Len(st.para) > 0
    THEN [i |-> st.i,
          out |-> LegacyAddSeparatorLine(st.out \o <<Trim(Join(st.para, <<SP>>))>>),
          para |-> <<>>,
          table |-> st.table,
          inTable |-> st.inTable]
    ELSE st

\* flushPotentialTableBlock of _convertToMarkdownLogic
LegacyFlushPotentialTableBlock(st) ==
    LET pushed ==
            IF Len(st.table) >= 2
            THEN st.out \o <<Fence>> \o MapTrimEnd(st.table) \o <<Fence>>
            ELSE st.out \o <<Trim(Join(st.table, <<SP>>))>>
    IN [i |-> st.i,
        out |-> IF Len(st.table) > 0 THEN LegacyAddSeparatorLine(pushed) ELSE st.out,
        para |-> st.para,
        table |-> <<>>,
        inTable |-> FALSE]

\* The body of the for loop of _convertToMarkdownLogic for line st.i.
LegacyProcessLine(st, lines) ==
    LET originalLine == lines[st.i]
        trimmedLine == Trim(originalLine)
        tableFlushed == IF st.inTable THEN LegacyFlushPotentialTableBlock(st) ELSE st
        bothFlushed == LegacyFlushCurrentParagraph(tableFlushed)
        isShortLine == Len(trimmedLine) > 0 /\ Len(trimmedLine) < ShortLineLimit
        noPunctuationEnd ==
            isShortLine /\ trimmedLine[Len(trimmedLine)] \notin SentencePunct
        nextLineIsBlankOrEndOfFile ==
            st.i + 1 = Len(lines) + 1 \/ Trim(lines[st.i + 1]) = <<>>
        isHeading ==
            \/ IsAllCapsLine(trimmedLine)
            \/ /\ isShortLine
               /\ noPunctuationEnd
               /\ nextLineIsBlankOrEndOfFile
               /\ Len(trimmedLine) > 1
        skipsNextLine ==
            /\ nextLineIsBlankOrEndOfFile
            /\ st.i + 1 < Len(lines) + 1
            /\ lines[st.i + 1] # <<>>
            /\ Trim(lines[st.i + 1]) = <<>>
    IN IF trimmedLine = <<>>
       THEN [bothFlushed EXCEPT !.i = st.i + 1]
       ELSE IF isHeading
       THEN [bothFlushed EXCEPT
                !.out = LegacyAddSeparatorLine(@ \o <<HeadingMark \o trimmedLine>>),
                !.i = IF skipsNextLine THEN st.i + 2 ELSE st.i + 1]
       ELSE IF \/ HasMultipleSpacesBetweenWords(originalLine)
               \/ HasMultipleColumnsBySpaces(originalLine)
       THEN [LegacyFlushCurrentParagraph(st) EXCEPT
                !.inTable = TRUE,
                !.table = @ \o <<originalLine>>,
                !.i = st.i + 1]
       ELSE [tableFlushed EXCEPT !.para = @ \o <<trimmedLine>>, !.i = st.i + 1]

RECURSIVE LegacyRunLines(_, _)
LegacyRunLines(st, lines) ==
    IF st.i > Len(lines) THEN st
    ELSE LegacyRunLines(LegacyProcessLine(st, lines), lines)

\* The loop of LegacyExtract2MDConverter._normalizeMarkdownNewlines.
RECURSIVE LegacyLimitEmptyLines(_, _)
LegacyLimitEmptyLines(lines, consecutiveEmptyLines) ==
    IF lines = <<>> THEN <<>>
    ELSE LET line == Head(lines)
         IN IF Trim(line) = <<>>
            THEN IF consecutiveEmptyLines + 1 <= 1
                 THEN << <<>> >> \o LegacyLimitEmptyLines(Tail(lines),
                                                          consecutiveEmptyLines + 1)
                 ELSE LegacyLimitEmptyLines(Tail(lines), consecutiveEmptyLines + 1)
            ELSE <<TrimEnd(line)>> \o LegacyLimitEmptyLines(Tail(lines), 0)

\* LegacyExtract2MDConverter._normalizeMarkdownNewlines
LegacyNormalizeMarkdownNewlines(lines) ==
    Trim(CollapseNewlines(Join(LegacyLimitEmptyLines(lines, 0), <<NL>>)))

\* LegacyExtract2MDConverter._convertToMarkdownLogic
convertToMarkdownLogic(text) ==
    LET inputLinesOf == SplitLines(text)
        afterLoop == LegacyRunLines(SynthStart, inputLinesOf)
        tableFlushed ==
            IF afterLoop.inTable THEN LegacyFlushPotentialTableBlock(afterLoop)
            ELSE afterLoop
    IN LegacyNormalizeMarkdownNewlines(LegacyFlushCurrentParagraph(tableFlushed).out)

(***************************************************************************)
(* Bounded sets of inputs.                                                 *)
(***************************************************************************)
RECURSIVE SeqsUpTo(_, _)
SeqsUpTo(S, n) ==
    IF n = 0 THEN {<<>>}
    ELSE LET shorter == SeqsUpTo(S, n - 1)
         IN shorter \cup {Append(q, x) : q \in {r \in shorter : Len(r) = n - 1}, x \in S}

\* What the extraction adapters can hand over: a letter of each case, a blank,
\* a line break, a soft hyphen and the fi ligature.
RawAlphabet == {"a", "A", ".", SP, NL, "00AD", "FB01"}
RawTexts == SeqsUpTo(RawAlphabet, MaxRawLen)

\* Caller-supplied rules: a literal pattern that refines a default, two regular
\* expressions, and the two malformed shapes (no pattern; a replacement that is
\* not a string).
LiteralFiRule == Rule(FALSE, "literal", {}, <<"f", "i">>, <<"X">>)
BreakOnARule == Rule(TRUE, "each", {"a"}, <<>>, <<NL>>)
DropCapitalRule == Rule(TRUE, "each", {"A"}, <<>>, <<>>)
NoFindRule == [LiteralFiRule EXCEPT !.hasFind = FALSE]
NoReplaceRule == [DropCapitalRule EXCEPT !.replaceIsString = FALSE]

CallerRules == {LiteralFiRule, BreakOnARule, DropCapitalRule, NoFindRule, NoReplaceRule}
RuleLists == SeqsUpTo(CallerRules, MaxRules)

\* Lines the synthesis is run on: empty, blank, one letter, a short line, a
\* sentence, capitals, two columns, a line with trailing blanks.
SynthLineSet ==
    { <<>>, <<SP>>, <<"a">>, <<"a", "b">>, <<"a", ".">>, <<"A", "B", "A">>,
      <<"a", SP, SP, "b">>, <<"b", SP>> }
SynthInputs == {Join(ls, <<NL>>) : ls \in SeqsUpTo(SynthLineSet, MaxLines) \ {<<>>}}

\* Lines at the limit of a short line: one character under the limit in small
\* letters, in capitals, with two columns, and with a final full stop; and a
\* line at the limit.
Repeat(c, n) == [k \in 1..n |-> c]
LongLineSet ==
    { Repeat("a", ShortLineLimit - 1),
      Repeat("A", ShortLineLimit - 1),
      <<"a", SP, SP>> \o Repeat("b", ShortLineLimit - 4),
      Append(Repeat("a", ShortLineLimit - 2), "."),
      Repeat("a", ShortLineLimit) }
\* The lines around them: empty, blank, a sentence.
LongNeighbourSet == { <<>>, <<SP>>, <<"a", ".">> }
LongInputs ==
    {Join(ls, <<NL>>) :
        ls \in SeqsUpTo(LongLineSet \cup LongNeighbourSet, MaxLongLines) \ {<<>>}}

\* Lines that tell the heading tests apart: one letter, two capitals, capitals
\* around an underscore, capitals with a digit and a final mark, digits only,
\* a short line; and the lines around them: empty, a sentence.
HeadingLineSet ==
    { <<"a">>, <<"A", "B">>, <<"A", "_", "B">>, <<"A", "1", "!">>,
      <<"1", "1", "1">>, <<"a", "b">>, <<>>, <<"a", ".">> }
HeadingInputs ==
    {Join(ls, <<NL>>) : ls \in SeqsUpTo(HeadingLineSet, MaxLongLines) \ {<<>>}}

(***************************************************************************)
(* SpecText: quickConvertOnly and highAccuracyConvertOnly, at the level of *)
(* the text.                                                               *)
(***************************************************************************)
IdleText ==
    /\ tscenario = 0
    /\ tpc = "off"
    /\ rawText = <<>>
    /\ rules = <<>>
    /\ splitPascalCase = FALSE
    /\ cleaned = <<>>
    /\ markdown = <<>>
    /\ progress = <<>>

IdleSynth ==
    /\ spc = "off"
    /\ inputLines = <<>>
    /\ i = 0
    /\ markdownOutputLines = <<>>
    /\ currentParagraphCollector = <<>>
    /\ inPotentialTableBlock = FALSE
    /\ potentialTableBlockLines = <<>>
    /\ finalMarkdown = <<>>

IdleCall ==
    /\ scenario = 0
    /\ file = "none"
    /\ config = [valid |-> TRUE, webllm |-> FALSE, model |-> "none", customModel |-> FALSE]
    /\ numPages = 0
    /\ orch = [pc |-> "off"]
    /\ quick = [pc |-> "off"]
    /\ ocr = [pc |-> "off"]
    /\ llm = [webllmEngine |-> FALSE]

IdleParse ==
    /\ ppc = "off"
    /\ rawOutput = <<>>
    /\ cleanedOutput = <<>>

IdlePrompt ==
    /\ bpc = "off"
    /\ scenarioType = "none"
    /\ customization = <<>>
    /\ systemPrompt = <<>>

\* this.chatModule = null
NoModule == [id |-> 0, modelId |-> "none"]

IdleLegacy ==
    /\ lpc = "off"
    /\ webllmApi = "none"
    /\ llmModelLibUrl = FALSE
    /\ chatModule = NoModule
    /\ llmInitialized = FALSE
    /\ loaded = {}
    /\ request = "none"
    /\ calls = 0
    /\ lastCall = "none"

\* No custom model: config.customModelConfig || null.
NoCustomModel == [model_id |-> "null", modelId |-> "undefined"]

IdleEngine ==
    /\ epc = "off"
    /\ engine = 0
    /\ isInitialized = FALSE
    /\ currentModelId = "null"
    /\ defaultModel = "null"
    /\ customModelConfig = NoCustomModel
    /\ createCalls = <<>>
    /\ completions = 0
    /\ target = "null"
    /\ outcome = "none"
    /\ engineCalls = 0

\* No scenario call was made; the page's pdf.js has the worker source it was
\* loaded with.
PageWorkerSrc == "page"
IdlePair ==
    /\ converters = <<>>
    /\ workerSrc = PageWorkerSrc
    /\ tesseractWorkers = <<>>
    /\ webllmEngines = <<>>

TextInit ==
    /\ tscenario \in {1, 2}
    /\ tpc = "new"
    /\ rules \in RuleLists
    /\ splitPascalCase \in BOOLEAN
    /\ rawText = <<>>
    /\ cleaned = <<>>
    /\ markdown = <<>>
    /\ progress = <<>>
    /\ IdleSynth
    /\ IdleCall
    /\ IdleParse
    /\ IdlePrompt
    /\ IdleLegacy
    /\ IdleEngine
    /\ IdlePair

\* validateProcessingConfig: every postProcessRule has a find and a string replace.
ValidateProcessingConfig(postProcessRules) ==
    \A k \in 1..Len(postProcessRules) : RuleIsUsable(postProcessRules[k])

\* new Extract2MDConverter(options): ConfigValidator.validate throws on a
\* malformed rule and the static async method rejects.
Construct ==
    /\ tpc = "new"
    /\ tpc' = IF ValidateProcessingConfig(rules) THEN "extracting" ELSE "rejected"
    /\ progress' = IF ValidateProcessingConfig(rules)
                   THEN Append(progress, IF tscenario = 1 THEN "quick_extraction_start"
                                         ELSE "ocr_extraction_start")
                   ELSE progress
    /\ UNCHANGED <<tscenario, rawText, rules, splitPascalCase, cleaned, markdown>>
    /\ UNCHANGED <<synthVars, callVars, parseVars, promptVars, legacyVars, engineVars, pairVars>>

\* The adapter hands over the raw text; _postProcessText runs on it.
ExtractAndPostProcess ==
    /\ tpc = "extracting"
    /\ \E raw \in RawTexts :
        /\ rawText' = raw
        /\ cleaned' = PostProcessText(raw, splitPascalCase, rules)
    /\ progress' = Append(progress, IF tscenario = 1 THEN "quick_extraction_complete"
                                    ELSE "ocr_extraction_complete")
    /\ tpc' = "extracted"
    /\ UNCHANGED <<tscenario, rules, splitPascalCase, markdown>>
    /\ UNCHANGED <<synthVars, callVars, parseVars, promptVars, legacyVars, engineVars, pairVars>>

\* The adapter throws (the reader, the worker or the input check).
ExtractFails ==
    /\ tpc = "extracting"
    /\ tpc' = "rejected"
    /\ UNCHANGED <<tscenario, rawText, rules, splitPascalCase, cleaned, markdown, progress>>
    /\ UNCHANGED <<synthVars, callVars, parseVars, promptVars, legacyVars, engineVars, pairVars>>

\* _performQuickConvert / _performHighAccuracyConvert after the extraction.
ConvertAndReturn ==
    /\ tpc = "extracted"
    /\ markdown' = ConvertToMarkdown(cleaned)
    /\ progress' = progress \o (IF tscenario = 1
                                THEN <<"quick_markdown_start", "quick_markdown_complete">>
                                ELSE <<"ocr_markdown_start", "ocr_markdown_complete">>)
    /\ tpc' = "resolved"
    /\ UNCHANGED <<tscenario, rawText, rules, splitPascalCase, cleaned>>
    /\ UNCHANGED <<synthVars, callVars, parseVars, promptVars, legacyVars, engineVars, pairVars>>

TextNext ==
    \/ Construct
    \/ ExtractAndPostProcess
    \/ ExtractFails
    \/ ConvertAndReturn

SpecText == TextInit /\ [][TextNext]_vars

(***************************************************************************)
(* SpecSynth: _convertToMarkdown, one line of the input per step.          *)
(***************************************************************************)
SynthState ==
    [i |-> i, out |-> markdownOutputLines, para |-> currentParagraphCollector,
     table |-> potentialTableBlockLines, inTable |-> inPotentialTableBlock]

SetSynthState(st) ==
    /\ i' = st.i
    /\ markdownOutputLines' = st.out
    /\ currentParagraphCollector' = st.para
    /\ potentialTableBlockLines' = st.table
    /\ inPotentialTableBlock' = st.inTable

SynthInit ==
    /\ spc = "loop"
    /\ \E text \in SynthInputs \cup LongInputs \cup HeadingInputs :
          inputLines = SplitLines(text)
    /\ i = 1
    /\ markdownOutputLines = <<>>
    /\ currentParagraphCollector = <<>>
    /\ inPotentialTableBlock = FALSE
    /\ potentialTableBlockLines = <<>>
    /\ finalMarkdown = <<>>
    /\ IdleText
    /\ IdleCall
    /\ IdleParse
    /\ IdlePrompt
    /\ IdleLegacy
    /\ IdleEngine
    /\ IdlePair

SynthLine ==
    /\ spc = "loop"
    /\ i <= Len(inputLines)
    /\ SetSynthState(ProcessLine(SynthState, inputLines))
    /\ UNCHANGED <<spc, inputLines, finalMarkdown>>
    /\ UNCHANGED <<textVars, callVars, parseVars, promptVars, legacyVars, engineVars, pairVars>>

SynthReturn ==
    /\ spc = "loop"
    /\ i > Len(inputLines)
    /\ SetSynthState(FlushBoth(SynthState))
    /\ finalMarkdown' = NormalizeMarkdownNewlines(FlushBoth(SynthState).out)
    /\ spc' = "returned"
    /\ UNCHANGED inputLines
    /\ UNCHANGED <<textVars, callVars, parseVars, promptVars, legacyVars, engineVars, pairVars>>

SynthNext ==
    \/ SynthLine
    \/ SynthReturn

SpecSynth == SynthInit /\ [][SynthNext]_vars

(***************************************************************************)
(* SpecCall: the five scenario calls, one action per resumption of an      *)
(* await (JavaScript runs each piece to completion).                       *)
(*                                                                         *)
(*   orch   the static scenario method: pc, the result of its body (body,  *)
(*          err), what the call settled with (outcome), the error          *)
(*          Promise.all or the awaited adapter rejected with (joinErr)     *)
(*   quick  _performQuickExtraction with _extractTextWithPdfJs             *)
(*   ocr    _performHighAccuracyExtraction and its recognition worker:     *)
(*          workerPromise is the promise of Tess.createWorker,             *)
(*          terminateCalls counts worker.terminate()                       *)
(*   llm    the converter's webllmEngine and the WebLLMEngine's fields     *)
(* The libraries (pdf.js, Tesseract.js) are loaded. The release of the     *)
(* engine that _cleanup awaits is allowed to reject, which is the case the *)
(* catch of _cleanup is written for; WebLLMEngine.cleanup as written       *)
(* resets its fields before it returns.                                    *)
(* Page texts are abstract: the text of page k is k, a full text is the    *)
(* sequence of the pages that contributed. Every progress event goes to    *)
(* the log of the piece of code that emitted it.                           *)
(***************************************************************************)
FileKinds == {"valid", "notFile", "empty", "tooLarge", "notPdf"}

Ev(stage) == [stage |-> stage, page |-> 0]
PageEv(stage, k) == [stage |-> stage, page |-> k]

\* A faulty per-page event, which counts the pages from zero.
PageProgressFromZero(stage, k, n) == [stage |-> stage, page |-> k - 1, total |-> n]

\* The per-page event of an adapter: currentPage: pageNum, totalPages: numPages.
PageProgress(stage, k, n) == [stage |-> stage, page |-> k, total |-> n]

UsesQuick(sc) == sc \in {1, 3, 5}
UsesOcr(sc) == sc \in {2, 4, 5}
UsesLLM(sc) == sc \in {3, 4, 5}

\* A faulty check, which tests only that the input is a File.
InputIsFile(f) == f # "notFile"

\* The four input checks of both adapters.
InputIsValid(f) == f = "valid"

\* The message of the error of the first input check that fails, in
\* phrases; "notFile" is any value that is not a File, null included.
InputErrorMessage(f) ==
    CASE f = "notFile" -> <<"Invalid input:", "pdfFile must be a File object.">>
      [] f = "empty" -> <<"Invalid input:", "PDF file is empty.">>
      [] f = "tooLarge" -> <<"Invalid input:", "PDF file is too large (max 100MB).">>
      [] OTHER -> <<"Invalid input:", "File must be a PDF document.">>

QuickIdle ==
    [pc |-> "idle", pageNum |-> 0, fullText |-> <<>>, err |-> "none", log |-> <<>>]

OcrIdle ==
    [pc |-> "idle", pageNum |-> 0, fullText |-> <<>>, err |-> "none", log |-> <<>>,
     workerPromise |-> "none", workerInitialized |-> FALSE, terminateCalls |-> 0,
     terminateResult |-> "none", canvasLive |-> 0, failedPages |-> {},
     createWorkerCalls |-> 0, rendered |-> <<>>, recognized |-> <<>>]

LlmIdle ==
    [webllmEngine |-> FALSE, engine |-> FALSE, isInitialized |-> FALSE,
     currentModelId |-> "none", gpu |-> "unchecked", constructed |-> 0,
     initializeCalls |-> 0, initResult |-> "none", generateCalls |-> 0,
     releaseFailed |-> FALSE, targetModelId |-> "none"]

OrchIdle ==
    [pc |-> "start", body |-> "none", err |-> "none", outcome |-> "pending",
     result |-> "none", joinErr |-> "none", log |-> <<>>]

(* _performQuickExtraction up to its first await. *)
QuickStart(f) ==
    IF ~InputIsValid(f)
    THEN [QuickIdle EXCEPT !.pc = "failed", !.err = "input"]
    ELSE [QuickIdle EXCEPT !.pc = "arrayBuffer",
                           !.log = <<Ev("quick_extraction_start")>>]

QuickFail(q, cause) == [q EXCEPT !.pc = "failed", !.err = cause]

\* The end of the page loop of _extractTextWithPdfJs and the rest of
\* _performQuickExtraction.
QuickNextPage(q, n) ==
    IF q.pageNum < n
    THEN [q EXCEPT !.pageNum = @ + 1,
                   !.log = Append(@, PageProgress("pdfjs_page", q.pageNum + 1, n)),
                   !.pc = "getPage"]
    ELSE [q EXCEPT !.log = @ \o <<Ev("pdfjs_extract_complete"),
                                  Ev("quick_extraction_complete")>>,
                   !.pc = "done"]

(* _performHighAccuracyExtraction up to its first await: createWorker is    *)
(* called and raced against the 30 s timer.                                 *)
OcrStart(f) ==
    IF ~InputIsValid(f)
    THEN [OcrIdle EXCEPT !.pc = "failed", !.err = "input"]
    ELSE [OcrIdle EXCEPT !.pc = "awaitWorker",
                         !.workerPromise = "pending",
                         !.createWorkerCalls = @ + 1,
                         !.log = <<Ev("ocr_extraction_start"), Ev("ocr_worker_init")>>]

\* A faulty end of the adapter: a termination that rejects or times out is
\* thrown.
AfterTerminateRethrows(o, r) ==
    IF r = "resolved"
    THEN [o EXCEPT !.terminateResult = r,
                   !.log = Append(@, Ev("ocr_extraction_complete")),
                   !.pc = "done"]
    ELSE [o EXCEPT !.terminateResult = r, !.pc = "failed", !.err = "terminate"]

\* After the race of worker.terminate() with the 10 s timer: its rejection is
\* caught and only warned about, the text is post-processed and returned.
AfterTerminate(o, r) ==
    [o EXCEPT !.terminateResult = r,
              !.log = Append(@, Ev("ocr_extraction_complete")),
              !.pc = "done"]

\* A faulty outer catch, which returns the text read so far.
OcrCatchReturnsText(o, cause) == [o EXCEPT !.pc = "done", !.err = cause]

\* The outer catch: terminate the worker the call holds, then rethrow.
OcrCatch(o, cause) ==
    IF o.workerInitialized
    THEN [o EXCEPT !.terminateCalls = @ + 1, !.pc = "catchTerminate", !.err = cause]
    ELSE [o EXCEPT !.pc = "failed", !.err = cause]

\* A faulty finally of a page, which leaves the canvas as it is.
KeepPageCanvas(live) == live

\* The finally of a page: canvas.width = 0; canvas.height = 0 on the canvas of
\* that page (before the first page there is none).
ReleasePageCanvas(live) == IF live > 0 THEN live - 1 ELSE live

\* The finally of a page, the loop header, and after the last page the
\* request to terminate the worker.
OcrNextPage(o, n) ==
    IF o.pageNum < n
    THEN [o EXCEPT !.canvasLive = ReleasePageCanvas(@),
                   !.pageNum = @ + 1,
                   !.log = Append(@, PageProgress("ocr_page_process", o.pageNum + 1, n)),
                   !.pc = "getPage"]
    ELSE [o EXCEPT !.canvasLive = ReleasePageCanvas(@),
                   !.log = Append(@, Ev("ocr_worker_terminate")),
                   !.terminateCalls = @ + 1,
                   !.pc = "awaitTerminate"]

\* A faulty handling of a page error: the error leaves the loop.
OcrPageErrorRethrown(o, n) ==
    OcrCatch([o EXCEPT !.canvasLive = ReleasePageCanvas(@),
                       !.failedPages = @ \cup {o.pageNum}], "page")

\* A faulty handling of a page error: the same page is tried again.
OcrPageErrorRetries(o, n) ==
    [o EXCEPT !.log = Append(@, PageEv("ocr_page_warning", o.pageNum)),
              !.canvasLive = ReleasePageCanvas(@), !.pc = "getPage"]

\* catch (pageError): warn and go on with the next page.
OcrPageError(o, n) ==
    OcrNextPage([o EXCEPT !.log = Append(@, PageEv("ocr_page_warning", o.pageNum)),
                          !.failedPages = @ \cup {o.pageNum}], n)

\* Faulty joins: one that waits for both adapters whatever they settled with,
\* and one that goes on as soon as one adapter has returned.
PromiseAllSettled(q, o) ==
    IF q \in {"done", "failed"} /\ o \in {"done", "failed"} THEN "fulfilled" ELSE "pending"

PromiseAny(q, o) ==
    IF q = "done" \/ o = "done" THEN "fulfilled"
    ELSE IF q = "failed" /\ o = "failed" THEN "rejected"
    ELSE "pending"

(* Promise.all of the two adapters' promises. *)
PromiseAll(q, o) ==
    IF q = "failed" \/ o = "failed" THEN "rejected"
    ELSE IF q = "done" /\ o = "done" THEN "fulfilled"
    ELSE "pending"

Settled(p) == IF p = "failed" THEN "rejected" ELSE IF p = "done" THEN "fulfilled" ELSE "pending"

\* What the scenario awaits after starting its extraction.
ExtractionAwaited(sc, q, o) ==
    IF sc = 5 THEN PromiseAll(q, o)
    ELSE IF UsesQuick(sc) THEN Settled(q) ELSE Settled(o)

\* The first adapter to fail is the one whose error the awaited promise carries.
NoteFailure(oc, p) ==
    IF p.pc = "failed" /\ oc.joinErr = "none" THEN [oc EXCEPT !.joinErr = p.err] ELSE oc

StageName(sc, what) ==
    IF what = "start"
    THEN (CASE sc = 3 -> "scenario_3_start" [] sc = 4 -> "scenario_4_start"
            [] OTHER -> "scenario_5_start")
    ELSE (CASE sc = 3 -> "scenario_3_complete" [] sc = 4 -> "scenario_4_complete"
            [] OTHER -> "scenario_5_complete")

(* WebLLMEngine.cleanup: the references are dropped. *)
EngineCleanup(l) ==
    IF l.engine
    THEN [l EXCEPT !.engine = FALSE, !.isInitialized = FALSE, !.currentModelId = "none"]
    ELSE l

\* webgpuCapability.isSupported
CapabilityCheckPasses(isSupported) == isSupported

\* A faulty initialize, whose catch only reports the failure.
InitializeSwallows(created) == FALSE

\* WebLLMEngine.initialize: its catch throws a new error when CreateMLCEngine
\* rejected.
InitializeThrows(created) == ~created

\* A faulty _cleanup, whose catch rethrows.
CleanupRethrows(releaseFailed) == releaseFailed

\* _cleanup: its catch reports the failed release and does not throw.
CleanupRejects(releaseFailed) == FALSE

\* The causes whose error object comes from a library or the File (pdf.js,
\* arrayBuffer) and reaches the caller as it is.
LibraryCauses == {"arrayBuffer", "getDocument", "getPage", "getTextContent"}

\* The name property of the error a call rejects with: every throw of the
\* converter, the validator and the engine is `new Error(...)`; the read of
\* config.webllm.model without a webllm section is a TypeError.
ErrorName(cause) ==
    IF cause = "typeError" THEN "TypeError"
    ELSE IF cause \in LibraryCauses THEN "LibraryError"
    ELSE "Error"

\* new WebLLMEngine: config.defaultModel || 'Qwen3-0.6B-q4f16_1-MLC'
DefaultModel == "Qwen3-0.6B-q4f16_1-MLC"

\* The configurations a caller can pass, as the converter reads them: whether
\* ConfigValidator.validate accepts it, whether it has a webllm section (the
\* validator knows no such section and deepMerge copies it as it is) and,
\* in that section, a model id and a custom model.
Configs ==
    {c \in [valid : BOOLEAN, webllm : BOOLEAN, model : {"none", "callerModel"},
            customModel : BOOLEAN] :
        ~c.webllm => (c.model = "none" /\ ~c.customModel)}

\* ConfigValidator.validate({}): the defaults, which have an llm section and
\* no webllm section.
ValidatedDefaultConfig ==
    [valid |-> TRUE, webllm |-> FALSE, model |-> "none", customModel |-> FALSE]

\* const modelToUse = customModel ? customModel.model_id : model
ModelToUse(c) == IF c.customModel THEN "customModelId" ELSE c.model

\* initialize: const targetModelId = modelId || this.defaultModel, with
\* defaultModel: this.config.webllm.model given to the constructor.
TargetModelId(c) ==
    IF ModelToUse(c) # "none" THEN ModelToUse(c)
    ELSE IF c.model # "none" THEN c.model
    ELSE DefaultModel

CallInit ==
    /\ scenario \in 1..5
    /\ file \in FileKinds
    /\ config \in Configs
    /\ numPages \in 1..MaxPages
    /\ orch = OrchIdle
    /\ quick = QuickIdle
    /\ ocr = OcrIdle
    /\ llm = LlmIdle
    /\ IdleText
    /\ IdleSynth
    /\ IdleParse
    /\ IdlePrompt
    /\ IdleLegacy
    /\ IdleEngine
    /\ IdlePair

Inputs == <<scenario, file, config, numPages>>

(* The end of the body of scenarios 3 to 5 and the start of the finally:    *)
(* _cleanup up to its await.                                                *)
EnterFinally(oc, l, body, cause) ==
    /\ llm' = IF l.webllmEngine THEN EngineCleanup(l) ELSE l
    /\ orch' = [oc EXCEPT !.body = body,
                          !.err = cause,
                          !.log = @ \o (IF ~l.webllmEngine THEN <<Ev("cleanup_complete")>>
                                        ELSE IF l.engine
                                        THEN <<Ev("cleanup_webllm"), Ev("webllm_cleanup"),
                                               Ev("webllm_cleanup_complete")>>
                                        ELSE <<Ev("cleanup_webllm")>>),
                          !.pc = IF l.webllmEngine THEN "cleanupEngine" ELSE "finally"]

(* The static scenario method up to its first await: the constructor        *)
(* (ConfigValidator.validate may throw, outside the try), then the          *)
(* adapter(s), each run to its first await.                                 *)
CallStart ==
    /\ orch.pc = "start"
    /\ IF ~config.valid
       THEN /\ orch' = [orch EXCEPT !.pc = "settled", !.outcome = "rejected",
                                    !.result = "config"]
            /\ UNCHANGED <<quick, ocr>>
       ELSE LET q == IF UsesQuick(scenario) THEN QuickStart(file) ELSE quick
                o == IF UsesOcr(scenario) THEN OcrStart(file) ELSE ocr
                started == [orch EXCEPT
                              !.pc = "extracting",
                              !.log = IF UsesLLM(scenario)
                                      THEN <<Ev(StageName(scenario, "start"))>> ELSE <<>>]
            IN /\ quick' = q
               /\ ocr' = o
               /\ orch' = NoteFailure(NoteFailure(started, q), o)
    /\ UNCHANGED <<Inputs, llm>>
    /\ UNCHANGED <<textVars, synthVars, parseVars, promptVars, legacyVars, engineVars, pairVars>>

SetQuick(q) ==
    /\ quick' = q
    /\ orch' = NoteFailure(orch, q)
    /\ UNCHANGED <<Inputs, ocr, llm>>
    /\ UNCHANGED <<textVars, synthVars, parseVars, promptVars, legacyVars, engineVars, pairVars>>

SetOcr(o) ==
    /\ ocr' = o
    /\ orch' = NoteFailure(orch, o)
    /\ UNCHANGED <<Inputs, quick, llm>>
    /\ UNCHANGED <<textVars, synthVars, parseVars, promptVars, legacyVars, engineVars, pairVars>>

QuickArrayBuffer ==
    /\ quick.pc = "arrayBuffer"
    /\ \E ok \in BOOLEAN :
        SetQuick(IF ok THEN [quick EXCEPT !.pc = "getDocument",
                                          !.log = Append(@, Ev("pdfjs_load"))]
                 ELSE QuickFail(quick, "arrayBuffer"))

QuickGetDocument ==
    /\ quick.pc = "getDocument"
    /\ \E ok \in BOOLEAN :
        SetQuick(IF ok THEN QuickNextPage(quick, numPages)
                 ELSE QuickFail(quick, "getDocument"))

QuickGetPage ==
    /\ quick.pc = "getPage"
    /\ \E ok \in BOOLEAN :
        SetQuick(IF ok THEN [quick EXCEPT !.pc = "getTextContent"]
                 ELSE QuickFail(quick, "getPage"))

QuickGetTextContent ==
    /\ quick.pc = "getTextContent"
    /\ \E ok \in BOOLEAN :
        SetQuick(IF ok
                 THEN QuickNextPage([quick EXCEPT !.fullText = Append(@, quick.pageNum)],
                                    numPages)
                 ELSE QuickFail(quick, "getTextContent"))

\* createWorker resolves before the timer fires.
OcrWorkerCreated ==
    /\ ocr.pc = "awaitWorker"
    /\ SetOcr([ocr EXCEPT !.workerPromise = "resolved",
                          !.workerInitialized = TRUE,
                          !.log = Append(@, Ev("ocr_worker_ready")),
                          !.pc = "arrayBuffer"])

\* createWorker rejects, or the 30 s timer fires first and leaves it pending.
OcrWorkerInitFails ==
    /\ ocr.pc = "awaitWorker"
    /\ \E timedOut \in BOOLEAN :
        SetOcr(OcrCatch([ocr EXCEPT !.workerPromise = IF timedOut THEN "pending"
                                                      ELSE "rejected"],
                        "workerInit"))

\* The race does not cancel createWorker: after the timer it may still settle.
WorkerSettlesLate ==
    /\ ocr.pc # "awaitWorker"
    /\ ocr.workerPromise = "pending"
    /\ \E created \in BOOLEAN :
        SetOcr([ocr EXCEPT !.workerPromise = IF created THEN "resolved" ELSE "rejected"])

OcrArrayBuffer ==
    /\ ocr.pc = "arrayBuffer"
    /\ \E ok \in BOOLEAN :
        SetOcr(IF ok THEN [ocr EXCEPT !.pc = "getDocument"]
               ELSE OcrCatch(ocr, "arrayBuffer"))

OcrGetDocument ==
    /\ ocr.pc = "getDocument"
    /\ \E ok \in BOOLEAN :
        SetOcr(IF ok THEN OcrNextPage(ocr, numPages) ELSE OcrCatch(ocr, "getDocument"))

\* getPage is awaited outside the try of the page.
OcrGetPage ==
    /\ ocr.pc = "getPage"
    /\ \E ok \in BOOLEAN :
        SetOcr(IF ok THEN [ocr EXCEPT !.canvasLive = @ + 1,
                                      !.rendered = Append(@, ocr.pageNum),
                                      !.pc = "render"]
               ELSE OcrCatch(ocr, "getPage"))

OcrRender ==
    /\ ocr.pc = "render"
    /\ \E ok \in BOOLEAN :
        SetOcr(IF ok THEN [ocr EXCEPT !.recognized = Append(@, ocr.pageNum),
                                      !.pc = "recognize"]
               ELSE OcrPageError(ocr, numPages))

OcrRecognize ==
    /\ ocr.pc = "recognize"
    /\ \E ok \in BOOLEAN :
        SetOcr(IF ok
               THEN OcrNextPage([ocr EXCEPT !.fullText = Append(@, ocr.pageNum)], numPages)
               ELSE OcrPageError(ocr, numPages))

\* The race of worker.terminate() with the 10 s timer: whatever it gives, the
\* text is post-processed and returned.
OcrTerminateSettles ==
    /\ ocr.pc = "awaitTerminate"
    /\ \E r \in {"resolved", "rejected", "timeout"} :
        SetOcr(AfterTerminate(ocr, r))

\* The race of worker.terminate() with the 5 s timer in the outer catch: the
\* original error is rethrown.
OcrCatchTerminateSettles ==
    /\ ocr.pc = "catchTerminate"
    /\ \E r \in {"resolved", "rejected", "timeout"} :
        SetOcr([ocr EXCEPT !.terminateResult = r, !.pc = "failed"])

\* The scenario resumes after its extraction.
ExtractionJoined ==
    /\ orch.pc = "extracting"
    /\ LET awaited == ExtractionAwaited(scenario, quick.pc, ocr.pc)
       IN /\ awaited # "pending"
          /\ IF ~UsesLLM(scenario)
             THEN /\ orch' = IF awaited = "fulfilled"
                             THEN [orch EXCEPT
                                     !.pc = "settled", !.body = "value",
                                     !.outcome = "resolved", !.result = "value",
                                     !.log = IF UsesQuick(scenario)
                                             THEN <<Ev("quick_markdown_start"),
                                                    Ev("quick_markdown_complete")>>
                                             ELSE <<Ev("ocr_markdown_start"),
                                                    Ev("ocr_markdown_complete")>>]
                             ELSE [orch EXCEPT !.pc = "settled", !.body = "error",
                                               !.outcome = "rejected",
                                               !.err = orch.joinErr,
                                               !.result = orch.joinErr]
                  /\ UNCHANGED llm
             ELSE IF awaited = "fulfilled"
             THEN /\ orch' = [orch EXCEPT !.pc = "gpuCheck",
                                          !.log = Append(@, Ev("webgpu_check_start"))]
                  /\ UNCHANGED llm
             ELSE EnterFinally(orch, llm, "error", orch.joinErr)
    /\ UNCHANGED <<Inputs, quick, ocr>>
    /\ UNCHANGED <<textVars, synthVars, parseVars, promptVars, legacyVars, engineVars, pairVars>>

\* _initializeWebLLM after checkWebGPUCapability: the check, the read of
\* config.webllm (a TypeError when the configuration has no webllm section),
\* new WebLLMEngine, and initialize up to CreateMLCEngine.
GpuChecked ==
    /\ orch.pc = "gpuCheck"
    /\ \E isSupported \in BOOLEAN :
        LET checked == [llm EXCEPT !.gpu = IF isSupported THEN "supported"
                                           ELSE "unsupported"]
        IN IF ~CapabilityCheckPasses(isSupported)
           THEN EnterFinally([orch EXCEPT !.log = Append(@, Ev("webgpu_check_failed"))],
                             checked, "error", "webgpu")
           ELSE IF ~config.webllm
           THEN EnterFinally([orch EXCEPT !.log = Append(@, Ev("webgpu_check_success"))],
                             checked, "error", "typeError")
           ELSE /\ llm' = [checked EXCEPT !.webllmEngine = TRUE,
                                          !.constructed = @ + 1,
                                          !.initializeCalls = @ + 1,
                                          !.targetModelId = TargetModelId(config)]
                /\ orch' = [orch EXCEPT !.log = @ \o <<Ev("webgpu_check_success"),
                                                       Ev("webllm_init_start")>>,
                                        !.pc = "engineInit"]
    /\ UNCHANGED <<Inputs, quick, ocr>>
    /\ UNCHANGED <<textVars, synthVars, parseVars, promptVars, legacyVars, engineVars, pairVars>>

\* CreateMLCEngine settles; on success the rewrite goes on to generate, whose
\* guard (isInitialized && engine) decides whether the model is asked.
EngineInitSettles ==
    /\ orch.pc = "engineInit"
    /\ \E ok \in BOOLEAN :
        LET l == IF ok
                 THEN [llm EXCEPT !.engine = TRUE, !.isInitialized = TRUE,
                                  !.currentModelId = llm.targetModelId,
                                  !.initResult = "ok"]
                 ELSE [llm EXCEPT !.isInitialized = FALSE, !.currentModelId = "none",
                                  !.initResult = "failed"]
            logged == [orch EXCEPT !.log = Append(@, IF ok THEN Ev("webllm_init_complete")
                                                     ELSE Ev("webllm_init_error"))]
            called == [l EXCEPT !.generateCalls = @ + 1]
        IN IF InitializeThrows(ok)
           THEN EnterFinally(logged, l, "error", "engineInit")
           ELSE IF called.isInitialized /\ called.engine
           THEN /\ llm' = called
                /\ orch' = [logged EXCEPT !.log = Append(@, Ev("webllm_generate_start")),
                                          !.pc = "generating"]
           ELSE EnterFinally(logged, called, "error", "notInitialized")
    /\ UNCHANGED <<Inputs, quick, ocr>>
    /\ UNCHANGED <<textVars, synthVars, parseVars, promptVars, legacyVars, engineVars, pairVars>>

\* engine.chat.completions.create settles.
GenerateSettles ==
    /\ orch.pc = "generating"
    /\ \E r \in {"content", "noChoices", "rejected"} :
        IF r = "content"
        THEN EnterFinally([orch EXCEPT !.log = @ \o <<Ev("webllm_generate_complete"),
                                                      Ev(StageName(scenario, "complete"))>>],
                          llm, "value", "none")
        ELSE EnterFinally([orch EXCEPT !.log = Append(@, Ev("webllm_generate_error"))],
                          llm, "error", "generate")
    /\ UNCHANGED <<Inputs, quick, ocr>>
    /\ UNCHANGED <<textVars, synthVars, parseVars, promptVars, legacyVars, engineVars, pairVars>>

\* _cleanup after await this.webllmEngine.cleanup(). The release can reject
\* only when the engine held a model: without one it emits no event and
\* returns.
CleanupResumes ==
    /\ orch.pc = "cleanupEngine"
    /\ \E released \in BOOLEAN :
        /\ released \/ orch.log[Len(orch.log)] = Ev("webllm_cleanup_complete")
        /\ llm' = IF released THEN [llm EXCEPT !.webllmEngine = FALSE]
                  ELSE [llm EXCEPT !.releaseFailed = TRUE]
        /\ orch' = [orch EXCEPT !.log = Append(@, IF released THEN Ev("cleanup_complete")
                                                  ELSE Ev("cleanup_error")),
                                !.pc = "finally"]
    /\ UNCHANGED <<Inputs, quick, ocr>>
    /\ UNCHANGED <<textVars, synthVars, parseVars, promptVars, legacyVars, engineVars, pairVars>>

\* The finally block is done: the call settles with the result of the body.
Settle ==
    /\ orch.pc = "finally"
    /\ orch' = IF CleanupRejects(llm.releaseFailed)
               THEN [orch EXCEPT !.pc = "settled", !.outcome = "rejected",
                                 !.result = "cleanup"]
               ELSE [orch EXCEPT !.pc = "settled",
                                 !.outcome = IF orch.body = "value" THEN "resolved"
                                             ELSE "rejected",
                                 !.result = IF orch.body = "value" THEN "value"
                                            ELSE orch.err]
    /\ UNCHANGED <<Inputs, quick, ocr, llm>>
    /\ UNCHANGED <<textVars, synthVars, parseVars, promptVars, legacyVars, engineVars, pairVars>>

CallNext ==
    \/ CallStart
    \/ QuickArrayBuffer
    \/ QuickGetDocument
    \/ QuickGetPage
    \/ QuickGetTextContent
    \/ OcrWorkerCreated
    \/ OcrWorkerInitFails
    \/ WorkerSettlesLate
    \/ OcrArrayBuffer
    \/ OcrGetDocument
    \/ OcrGetPage
    \/ OcrRender
    \/ OcrRecognize
    \/ OcrTerminateSettles
    \/ OcrCatchTerminateSettles
    \/ ExtractionJoined
    \/ GpuChecked
    \/ EngineInitSettles
    \/ GenerateSettles
    \/ CleanupResumes
    \/ Settle

SpecCall == CallInit /\ [][CallNext]_vars

\* The two timers raced against worker.terminate() fire: each race settles.
SpecCallFair ==
    /\ SpecCall
    /\ WF_vars(OcrTerminateSettles)
    /\ WF_vars(OcrCatchTerminateSettles)

(***************************************************************************)
(* SpecParse: _performLLMRewrite / _performCombinedLLMRewrite after the    *)
(* await of generate: the raw response goes through OutputParser.parse.    *)
(* A response is a sequence of characters, built from pieces so that the   *)
(* tags can occur whole, in halves and inside one another.  Responses hold *)
(* no '#', list marker, digit, tab, CR or backtick: the cleanup and        *)
(* structure patterns that need one of those leave such a text as it is.   *)
(***************************************************************************)
OpenTag == <<"<", "t", "h", "i", "n", "k", ">">>
CloseTag == <<"<", "/", "t", "h", "i", "n", "k", ">">>

\* The offset of the first occurrence of tag in s, or -1.
IndexOf(s, tag) ==
    LET at == {d \in 0..(Len(s) - Len(tag)) : IsPrefix(tag, Drop(s, d))}
    IN IF at = {} THEN -1 ELSE CHOOSE d \in at : \A e \in at : d <= e

\* A faulty removal, which leaves the text as it is.
KeepThinkBlocks(s) == s

\* text.replace(/<think>.*?<\/think>\n?\n?/gs, ''): one pass from the left,
\* each match from an opening tag to the nearest closing tag after it and up
\* to two line breaks; the scan goes on after the match.
RECURSIVE ReplaceThinkRegex(_)
ReplaceThinkRegex(s) ==
    IF s = <<>> THEN <<>>
    ELSE LET body == Drop(s, Len(OpenTag))
             c == IndexOf(body, CloseTag)
         IN IF IsPrefix(OpenTag, s) /\ c >= 0
            THEN LET after == Drop(body, c + Len(CloseTag))
                     n == RunLen(after, {NL})
                 IN ReplaceThinkRegex(Drop(after, IF n > 2 THEN 2 ELSE n))
            ELSE <<Head(s)>> \o ReplaceThinkRegex(Tail(s))

\* cleaned.replace(/^\s*\n+/, ''): the leading white space up to its last
\* line break.
StripLeadingEmptyLines(s) ==
    LET breaks == {k \in 1..RunLen(s, WhiteSpace) : s[k] = NL}
    IN IF breaks = {} THEN s
       ELSE Drop(s, CHOOSE k \in breaks : \A j \in breaks : j <= k)

removeThinkingBlocks(text) == StripLeadingEmptyLines(ReplaceThinkRegex(text))

\* { find: /[ \t]+$/gm, replace: '' }
StripEndBlanks(line) ==
    LET kept == {k \in 1..Len(line) : line[k] \notin {SP, "\t"}}
    IN IF kept = {} THEN <<>>
       ELSE Take(line, CHOOSE k \in kept : \A j \in kept : j <= k)

RemoveTrailingSpaces(text) ==
    LET ls == SplitLines(text)
    IN Join([k \in 1..Len(ls) |-> StripEndBlanks(ls[k])], <<NL>>)

\* The patterns in their order: /\n{3,}/g, then (headers, list markers,
\* numbered lists: nothing to match), trailing spaces, then (CRLF, code
\* fences: nothing to match).
applyCleanupPatterns(text) == RemoveTrailingSpaces(CollapseNewlines(text))

\* /^(#{1,6}\s.+)$/m on one line: one to six '#', a white space character
\* and at least one more character.
IsHeaderLine(line) ==
    \E n \in 1..6 :
        /\ Len(line) >= n + 2
        /\ \A k \in 1..n : line[k] = "#"
        /\ IsWS(line[n + 1])

\* structured.replace(/^(#{1,6}\s.+)$/gm, '\n$1\n')
HeaderSpacing(text) ==
    LET ls == SplitLines(text)
    IN Join([k \in 1..Len(ls) |->
                IF IsHeaderLine(ls[k]) THEN <<NL>> \o ls[k] \o <<NL>> ELSE ls[k]],
            <<NL>>)

\* Headers; code fences and list items: nothing to match; then /\n{3,}/g.
ensureMarkdownStructure(text) == CollapseNewlines(HeaderSpacing(text))

\* A value that is not a string (null, undefined, an object), written as a
\* sequence of one token that is no character.
NotAString == <<"notAString">>

\* A faulty parse, which does not trim.
parseUntrimmed(raw) ==
    IF raw = <<>> \/ raw = NotAString THEN <<>>
    ELSE ensureMarkdownStructure(applyCleanupPatterns(removeThinkingBlocks(raw)))

\* OutputParser.parse
parse(raw) ==
    IF raw = <<>> \/ raw = NotAString THEN <<>>
    ELSE Trim(ensureMarkdownStructure(applyCleanupPatterns(removeThinkingBlocks(raw))))

Pieces == { OpenTag, CloseTag, <<"<", "t", "h">>, <<"i", "n", "k", ">">>, <<"x">>, <<NL>> }

Reasoning == <<"r", "e", "a", "s", "o", "n", "i", "n", "g">>
FinalAnswer == <<"F", "i", "n", "a", "l", SP, "a", "n", "s", "w", "e", "r", ".">>
ThinkThenAnswer == OpenTag \o Reasoning \o CloseTag \o <<NL, NL>> \o FinalAnswer

\* Responses with headers: a header is always '# x', so that the header
\* pattern of the cleanup (/^(#{1,6})\s*(.+)$/gm to '$1 $2') leaves it as it
\* is; with them line breaks, blanks, text and an emptied thinking block.
Header == <<"#", SP, "x">>
HeaderPieces == { Header, <<NL>>, <<SP>>, <<"x">>, OpenTag \o CloseTag }
HeaderOutputs == {Join(ps, <<>>) : ps \in SeqsUpTo(HeaderPieces, MaxPieces)}

RawOutputs ==
    {Join(ps, <<>>) : ps \in SeqsUpTo(Pieces, MaxPieces)}
        \cup {ThinkThenAnswer} \cup HeaderOutputs \cup {NotAString}

ParseInit ==
    /\ ppc = "generating"
    /\ rawOutput = <<>>
    /\ cleanedOutput = <<>>
    /\ IdleText
    /\ IdleSynth
    /\ IdleCall
    /\ IdlePrompt
    /\ IdleLegacy
    /\ IdleEngine
    /\ IdlePair

\* const rawOutput = await this.webllmEngine.generate(...)
GenerateReturns ==
    /\ ppc = "generating"
    /\ \E raw \in RawOutputs : rawOutput' = raw
    /\ ppc' = "parsing"
    /\ UNCHANGED cleanedOutput
    /\ UNCHANGED <<textVars, synthVars, callVars, promptVars, legacyVars, engineVars, pairVars>>

\* const cleanedOutput = this.outputParser.parse(rawOutput); return cleanedOutput
ParseAndReturn ==
    /\ ppc = "parsing"
    /\ cleanedOutput' = parse(rawOutput)
    /\ ppc' = "returned"
    /\ UNCHANGED rawOutput
    /\ UNCHANGED <<textVars, synthVars, callVars, promptVars, legacyVars, engineVars, pairVars>>

ParseNext ==
    \/ GenerateReturns
    \/ ParseAndReturn

SpecParse == ParseInit /\ [][ParseNext]_vars

(***************************************************************************)
(* SpecPrompt: SystemPrompts.buildSystemPrompt. A base instruction block   *)
(* is one token; a customization is a sequence of characters.              *)
(***************************************************************************)
SingleBase == <<"singleBasePrompt">>
CombinedBase == <<"combinedBasePrompt">>

\* `\n\n**Additional Instructions:**\n`
AdditionalInstructions ==
    <<NL, NL, "*", "*", "Additional Instructions:", "*", "*", NL>>

\* customization ? `${basePrompt}\n\n**Additional Instructions:**\n${customization}`
\*               : basePrompt
WithCustomization(basePrompt, custom) ==
    IF custom # <<>> THEN basePrompt \o AdditionalInstructions \o custom ELSE basePrompt

getSingleExtractionPrompt(custom) == WithCustomization(SingleBase, custom)

getCombinedExtractionPrompt(custom) == WithCustomization(CombinedBase, custom)

\* A faulty builder, in which a customization takes the place of the base block.
CustomizationReplacesBase(type, custom) ==
    IF custom # <<>> THEN AdditionalInstructions \o custom
    ELSE IF type = "single" THEN SingleBase ELSE CombinedBase

\* The switch of buildSystemPrompt, for the two known types.
buildSystemPrompt(type, custom) ==
    IF type = "single" THEN getSingleExtractionPrompt(custom)
    ELSE getCombinedExtractionPrompt(custom)

ScenarioTypes == {"single", "combined", "other"}

Customizations == SeqsUpTo({"c", SP, NL, "*"}, MaxCustomLen)

PromptInit ==
    /\ bpc = "start"
    /\ scenarioType \in ScenarioTypes
    /\ customization \in Customizations
    /\ systemPrompt = <<>>
    /\ IdleText
    /\ IdleSynth
    /\ IdleCall
    /\ IdleParse
    /\ IdleLegacy
    /\ IdleEngine
    /\ IdlePair

\* SystemPrompts.buildSystemPrompt(scenarioType, customization); the default
\* of the switch throws.
BuildSystemPrompt ==
    /\ bpc = "start"
    /\ IF scenarioType \in {"single", "combined"}
       THEN /\ systemPrompt' = buildSystemPrompt(scenarioType, customization)
            /\ bpc' = "built"
       ELSE /\ systemPrompt' = systemPrompt
            /\ bpc' = "thrown"
    /\ UNCHANGED <<scenarioType, customization>>
    /\ UNCHANGED <<textVars, synthVars, callVars, parseVars, legacyVars, engineVars, pairVars>>

\* The caller goes on to the next prompt.
NextPrompt ==
    /\ bpc \in {"built", "thrown"}
    /\ bpc' = "start"
    /\ \E type \in ScenarioTypes : scenarioType' = type
    /\ \E custom \in Customizations : customization' = custom
    /\ systemPrompt' = <<>>
    /\ UNCHANGED <<textVars, synthVars, callVars, parseVars, legacyVars, engineVars, pairVars>>

PromptNext ==
    \/ BuildSystemPrompt
    \/ NextPrompt

SpecPrompt == PromptInit /\ [][PromptNext]_vars

(***************************************************************************)
(* SpecLegacy: LegacyExtract2MDConverter, its llmRewrite and unloadLLM     *)
(* called one after another on one converter, at the level of the awaits.  *)
(*   chatModule      the converter's reference, with the modelId stored on *)
(*                   it; id names the object                               *)
(*   loaded          the library's objects that hold a model: one enters   *)
(*                   when CreateMLCEngine or Chat.reload resolves and      *)
(*                   leaves when its unload resolves; after a rejected     *)
(*                   unload it may or may not hold its model still         *)
(*   webllmApi       what the constructor found: CreateMLCEngine           *)
(*                   ("engine"), only Chat ("chat"), or nothing ("none")   *)
(* The objects of the library have an unload function.                     *)
(***************************************************************************)
LegacyModels == {"default", "other"}

\* The model_lib URL is known: given to the constructor, or the default model's.
ModelLibKnown(modelId, libUrl) == libUrl \/ modelId = "default"

\* this.llmInitialized && this.chatModule && currentModelId === modelId
AlreadyInitialized(init, module, modelId) ==
    init /\ module # NoModule /\ module.modelId = modelId

\* A faulty initialisation, which leaves the held object as it is.
NeverUnloadsFirst(module) == FALSE

\* if (this.chatModule && typeof this.chatModule.unload === 'function')
UnloadsFirst(module) == module # NoModule

LegacyInit ==
    /\ lpc = "idle"
    /\ webllmApi \in {"engine", "chat", "none"}
    /\ llmModelLibUrl \in BOOLEAN
    /\ chatModule = NoModule
    /\ llmInitialized = FALSE
    /\ loaded = {}
    /\ request = "none"
    /\ calls = 0
    /\ lastCall = "none"
    /\ IdleText
    /\ IdleSynth
    /\ IdleCall
    /\ IdleParse
    /\ IdlePrompt
    /\ IdleEngine
    /\ IdlePair

LegacyConfig == <<webllmApi, llmModelLibUrl>>

\* _initializeLLM after the held object is gone: llmInitialized = false, then
\* the try up to its await. On the engine path a model without a known
\* model_lib throws inside the try; on the Chat path the new object is
\* stored, with its modelId, before reload is awaited.
StartCreate(modelId) ==
    /\ llmInitialized' = FALSE
    /\ IF webllmApi = "engine"
       THEN IF ModelLibKnown(modelId, llmModelLibUrl)
            THEN /\ lpc' = "creating"
                 /\ UNCHANGED lastCall
            ELSE /\ lpc' = "idle"
                 /\ lastCall' = "rewriteRejected"
       ELSE /\ lpc' = "creating"
            /\ UNCHANGED lastCall

\* llmRewrite(text, {llmModel}) up to its first await.
CallRewrite ==
    /\ lpc = "idle"
    /\ calls < MaxLegacyCalls
    /\ calls' = calls + 1
    /\ \E modelId \in LegacyModels :
        /\ request' = modelId
        /\ IF webllmApi = "none"
           THEN /\ lpc' = "idle"
                /\ lastCall' = "rewriteRejected"
                /\ UNCHANGED <<chatModule, llmInitialized>>
           ELSE IF AlreadyInitialized(llmInitialized, chatModule, modelId)
           THEN /\ lpc' = "generating"
                /\ UNCHANGED <<chatModule, llmInitialized, lastCall>>
           ELSE IF UnloadsFirst(chatModule)
           THEN /\ lpc' = "initUnload"
                /\ UNCHANGED <<chatModule, llmInitialized, lastCall>>
           ELSE /\ StartCreate(modelId)
                /\ chatModule' = IF webllmApi = "chat" /\ lpc' = "creating"
                                 THEN [id |-> calls + 1, modelId |-> modelId]
                                 ELSE chatModule
    /\ UNCHANGED <<LegacyConfig, loaded>>
    /\ UNCHANGED <<textVars, synthVars, callVars, parseVars, promptVars, engineVars, pairVars>>

\* await this.chatModule.unload() in _initializeLLM settles: on success the
\* reference is cleared and the creation starts; a rejection leaves
\* _initializeLLM, and llmRewrite, at once.
InitUnloadSettles ==
    /\ lpc = "initUnload"
    /\ \E ok \in BOOLEAN, stillHeld \in BOOLEAN :
        IF ok
        THEN /\ loaded' = loaded \ {chatModule.id}
             /\ StartCreate(request)
             /\ chatModule' = IF webllmApi = "chat" /\ lpc' = "creating"
                              THEN [id |-> calls, modelId |-> request]
                              ELSE NoModule
        ELSE /\ loaded' = IF stillHeld THEN loaded ELSE loaded \ {chatModule.id}
             /\ lpc' = "idle"
             /\ lastCall' = "rewriteRejected"
             /\ UNCHANGED <<chatModule, llmInitialized>>
    /\ UNCHANGED <<LegacyConfig, request, calls>>
    /\ UNCHANGED <<textVars, synthVars, callVars, parseVars, promptVars, engineVars, pairVars>>

\* CreateMLCEngine, or Chat.reload, settles; on success llmRewrite goes on to
\* generate.
CreateSettles ==
    /\ lpc = "creating"
    /\ \E ok \in BOOLEAN :
        IF ok
        THEN LET module == IF webllmApi = "engine"
                           THEN [id |-> calls, modelId |-> request]
                           ELSE chatModule
             IN /\ chatModule' = module
                /\ loaded' = loaded \cup {module.id}
                /\ llmInitialized' = TRUE
                /\ lpc' = "generating"
                /\ UNCHANGED lastCall
        ELSE /\ llmInitialized' = FALSE
             /\ lpc' = "idle"
             /\ lastCall' = "rewriteRejected"
             /\ UNCHANGED <<chatModule, loaded>>
    /\ UNCHANGED <<LegacyConfig, request, calls>>
    /\ UNCHANGED <<textVars, synthVars, callVars, parseVars, promptVars, engineVars, pairVars>>

\* chat.completions.create, or generate, settles.
LegacyGenerateSettles ==
    /\ lpc = "generating"
    /\ lpc' = "idle"
    /\ \E ok \in BOOLEAN : lastCall' = IF ok THEN "rewriteResolved" ELSE "rewriteRejected"
    /\ UNCHANGED <<LegacyConfig, chatModule, llmInitialized, loaded, request, calls>>
    /\ UNCHANGED <<textVars, synthVars, callVars, parseVars, promptVars, engineVars, pairVars>>

\* unloadLLM() up to its await; without a held object it returns at once.
CallUnload ==
    /\ lpc = "idle"
    /\ calls < MaxLegacyCalls
    /\ calls' = calls + 1
    /\ IF chatModule # NoModule
       THEN /\ lpc' = "unloading"
            /\ UNCHANGED lastCall
       ELSE /\ lpc' = "idle"
            /\ lastCall' = "unloadResolved"
    /\ UNCHANGED <<LegacyConfig, chatModule, llmInitialized, loaded, request>>
    /\ UNCHANGED <<textVars, synthVars, callVars, parseVars, promptVars, engineVars, pairVars>>

\* await this.chatModule.unload() in unloadLLM settles.
UnloadSettles ==
    /\ lpc = "unloading"
    /\ lpc' = "idle"
    /\ \E ok \in BOOLEAN, stillHeld \in BOOLEAN :
        IF ok
        THEN /\ loaded' = loaded \ {chatModule.id}
             /\ chatModule' = NoModule
             /\ llmInitialized' = FALSE
             /\ lastCall' = "unloadResolved"
        ELSE /\ loaded' = IF stillHeld THEN loaded ELSE loaded \ {chatModule.id}
             /\ lastCall' = "unloadRejected"
             /\ UNCHANGED <<chatModule, llmInitialized>>
    /\ UNCHANGED <<LegacyConfig, request, calls>>
    /\ UNCHANGED <<textVars, synthVars, callVars, parseVars, promptVars, engineVars, pairVars>>

LegacyNext ==
    \/ CallRewrite
    \/ InitUnloadSettles
    \/ CreateSettles
    \/ LegacyGenerateSettles
    \/ CallUnload
    \/ UnloadSettles

SpecLegacy == LegacyInit /\ [][LegacyNext]_vars

(***************************************************************************)
(* SpecEngine: WebLLMEngine under initialize, generate, generateStream and *)
(* cleanup calls issued one after another.  The engine reference is 0 for  *)
(* null and otherwise the number of the CreateMLCEngine call that made it; *)
(* createCalls lists the calls of CreateMLCEngine with the model id and   *)
(* the appConfig they were given; completions counts the calls of         *)
(* engine.chat.completions.create.                                         *)
(***************************************************************************)
MaxEngineCalls == 3

EngineModels == {"A", "B"}

\* The custom model configurations: the validated fields model_id (with model
\* and model_lib), and a field modelId that the caller may have added.
CustomModelConfigs ==
    {NoCustomModel} \cup
    [model_id : EngineModels, modelId : {"undefined"} \cup EngineModels]

\* const targetModelId = modelId || this.defaultModel
EngineTargetModelId(modelId, default) == IF modelId # "null" THEN modelId ELSE default

\* A faulty test, which takes any initialised engine for the right one.
AnyModelLoaded(init, current, targetModelId) == init

\* this.isInitialized && this.currentModelId === targetModelId
SameModelLoaded(init, current, targetModelId) == init /\ current = targetModelId

\* appConfig: the custom configuration when its modelId is the target.
AppConfigFor(custom, targetModelId) ==
    IF custom # NoCustomModel /\ custom.modelId = targetModelId
    THEN <<custom>>
    ELSE <<>>

\* A faulty guard, which lets every call through.
GuardOff(init, ref) == FALSE

\* if (!this.isInitialized || !this.engine) throw
NotInitialized(init, ref) == ~init \/ ref = 0

EngineInit ==
    /\ epc = "idle"
    /\ engine = 0
    /\ isInitialized = FALSE
    /\ currentModelId = "null"
    /\ defaultModel \in EngineModels
    /\ customModelConfig \in CustomModelConfigs
    /\ createCalls = <<>>
    /\ completions = 0
    /\ target = "null"
    /\ outcome = "none"
    /\ engineCalls = 0
    /\ IdleText
    /\ IdleSynth
    /\ IdleCall
    /\ IdleParse
    /\ IdlePrompt
    /\ IdleLegacy
    /\ IdlePair

EngineConfig == <<defaultModel, customModelConfig>>

\* initialize up to the await of CreateMLCEngine: the short circuit, the
\* cleanup of an existing engine, appConfig.
Initialize ==
    /\ epc = "idle"
    /\ engineCalls < MaxEngineCalls
    /\ engineCalls' = engineCalls + 1
    /\ \E modelId \in {"null"} \cup EngineModels :
        LET targetModelId == EngineTargetModelId(modelId, defaultModel)
        IN /\ target' = targetModelId
           /\ IF SameModelLoaded(isInitialized, currentModelId, targetModelId)
              THEN /\ outcome' = "ready"
                   /\ UNCHANGED <<epc, engine, isInitialized, currentModelId, createCalls>>
              ELSE /\ engine' = 0
                   /\ isInitialized' = IF engine # 0 THEN FALSE ELSE isInitialized
                   /\ currentModelId' = IF engine # 0 THEN "null" ELSE currentModelId
                   /\ createCalls' = Append(createCalls,
                                        [modelId |-> targetModelId,
                                         appConfig |-> AppConfigFor(customModelConfig,
                                                                    targetModelId)])
                   /\ outcome' = "pending"
                   /\ epc' = "creating"
    /\ UNCHANGED <<EngineConfig, completions>>
    /\ UNCHANGED <<textVars, synthVars, callVars, parseVars, promptVars, legacyVars, pairVars>>

\* await CreateMLCEngine settles: the engine is kept, or the catch runs.
CreateMLCEngineSettles ==
    /\ epc = "creating"
    /\ \E ok \in BOOLEAN :
        /\ engine' = IF ok THEN Len(createCalls) ELSE engine
        /\ isInitialized' = ok
        /\ currentModelId' = IF ok THEN target ELSE "null"
        /\ outcome' = IF ok THEN "initialized" ELSE "initFailed"
    /\ epc' = "idle"
    /\ UNCHANGED <<EngineConfig, createCalls, completions, target, engineCalls>>
    /\ UNCHANGED <<textVars, synthVars, callVars, parseVars, promptVars, legacyVars, pairVars>>

\* The guard of generate and generateStream, and the call of
\* chat.completions.create.
StartCompletion(position) ==
    IF NotInitialized(isInitialized, engine)
    THEN /\ outcome' = "notInitialized"
         /\ UNCHANGED <<epc, completions>>
    ELSE /\ completions' = completions + 1
         /\ outcome' = "pending"
         /\ epc' = position

\* generate up to its await.
Generate ==
    /\ epc = "idle"
    /\ engineCalls < MaxEngineCalls
    /\ engineCalls' = engineCalls + 1
    /\ StartCompletion("generating")
    /\ UNCHANGED <<EngineConfig, engine, isInitialized, currentModelId, createCalls, target>>
    /\ UNCHANGED <<textVars, synthVars, callVars, parseVars, promptVars, legacyVars, pairVars>>

\* generateStream up to its await.
GenerateStream ==
    /\ epc = "idle"
    /\ engineCalls < MaxEngineCalls
    /\ engineCalls' = engineCalls + 1
    /\ StartCompletion("streaming")
    /\ UNCHANGED <<EngineConfig, engine, isInitialized, currentModelId, createCalls, target>>
    /\ UNCHANGED <<textVars, synthVars, callVars, parseVars, promptVars, legacyVars, pairVars>>

\* The completion (or the stream of chunks) ends, or the catch runs.
CompletionSettles ==
    /\ epc \in {"generating", "streaming"}
    /\ \E ok \in BOOLEAN :
        outcome' = IF ok THEN "content"
                   ELSE IF epc = "streaming" THEN "streamFailed" ELSE "generateFailed"
    /\ epc' = "idle"
    /\ UNCHANGED <<EngineConfig, engine, isInitialized, currentModelId, createCalls,
                   completions, target, engineCalls>>
    /\ UNCHANGED <<textVars, synthVars, callVars, parseVars, promptVars, legacyVars, pairVars>>

\* cleanup: the references are dropped when there is an engine.
Cleanup ==
    /\ epc = "idle"
    /\ engineCalls < MaxEngineCalls
    /\ engineCalls' = engineCalls + 1
    /\ engine' = 0
    /\ isInitialized' = IF engine # 0 THEN FALSE ELSE isInitialized
    /\ currentModelId' = IF engine # 0 THEN "null" ELSE currentModelId
    /\ outcome' = "cleaned"
    /\ UNCHANGED <<EngineConfig, epc, createCalls, completions, target>>
    /\ UNCHANGED <<textVars, synthVars, callVars, parseVars, promptVars, legacyVars, pairVars>>

EngineNext ==
    \/ Initialize
    \/ CreateMLCEngineSettles
    \/ Generate
    \/ GenerateStream
    \/ CompletionSettles
    \/ Cleanup

SpecEngine == EngineInit /\ [][EngineNext]_vars

(***************************************************************************)
(* SpecPair: two calls of Extract2MDConverter.highAccuracyConvertWithLLM   *)
(* in flight at the same time, at the level of the awaits. Each call runs  *)
(* from one await to the next in one step; the steps of the two calls      *)
(* interleave in every order.                                              *)
(*                                                                         *)
(*   converters        the converter each call constructs: its position,   *)
(*                     config.pdfJsWorkerSrc, its recognition worker, its   *)
(*                     webllmEngine, and the worker source pdf.js had when  *)
(*                     the call's document was opened                       *)
(*   workerSrc         pdfjsLib.GlobalWorkerOptions.workerSrc, one for the *)
(*                     page                                                *)
(*   tesseractWorkers  the workers Tesseract.createWorker made             *)
(*   webllmEngines     the WebLLMEngine objects constructed                *)
(***************************************************************************)
CallIds == 1..MaxCalls
\* options.pdfJsWorkerSrc of a call.
WorkerSrcs == {"a", "b"}

NotCalled(src) ==
    [pc |-> "notCalled", pdfJsWorkerSrc |-> src, worker |-> 0, webllmEngine |-> 0,
     documentWorkerSrc |-> "none", outcome |-> "none"]

PairInit ==
    /\ converters \in [CallIds -> {NotCalled(src) : src \in WorkerSrcs}]
    /\ workerSrc = PageWorkerSrc
    /\ tesseractWorkers = <<>>
    /\ webllmEngines = <<>>
    /\ IdleText
    /\ IdleSynth
    /\ IdleCall
    /\ IdleParse
    /\ IdlePrompt
    /\ IdleLegacy
    /\ IdleEngine

\* setupPdfJsWorker: GlobalWorkerOptions.workerSrc = this.config.pdfJsWorkerSrc
SetupPdfJsWorker(configured) == configured

\* new Extract2MDConverter(options), scenario_4_start and
\* _performHighAccuracyExtraction up to the await of Tess.createWorker.
PairCall ==
    \E c \in CallIds :
        /\ converters[c].pc = "notCalled"
        /\ workerSrc' = SetupPdfJsWorker(converters[c].pdfJsWorkerSrc)
        /\ tesseractWorkers' =
              Append(tesseractWorkers,
                     [createdBy |-> c, state |-> "created", terminatedBy |-> 0])
        /\ converters' = [converters EXCEPT ![c].pc = "ocr_worker_init",
                                            ![c].worker = Len(tesseractWorkers) + 1]
        /\ UNCHANGED webllmEngines
        /\ UNCHANGED <<textVars, synthVars, callVars, parseVars, promptVars,
                       legacyVars, engineVars>>

\* worker = await Promise.race([workerPromise, timeoutPromise]), then
\* await pdfFile.arrayBuffer().
PairWorkerReady ==
    \E c \in CallIds :
        /\ converters[c].pc = "ocr_worker_init"
        /\ converters' = [converters EXCEPT ![c].pc = "array_buffer"]
        /\ UNCHANGED <<workerSrc, tesseractWorkers, webllmEngines>>
        /\ UNCHANGED <<textVars, synthVars, callVars, parseVars, promptVars,
                       legacyVars, engineVars>>

\* pdfjs.getDocument({ data: arrayBuffer }): pdf.js starts the document's
\* worker from GlobalWorkerOptions.workerSrc as it is at this moment.
PairGetDocument ==
    \E c \in CallIds :
        /\ converters[c].pc = "array_buffer"
        /\ converters' = [converters EXCEPT ![c].pc = "pages",
                                            ![c].documentWorkerSrc = workerSrc]
        /\ UNCHANGED <<workerSrc, tesseractWorkers, webllmEngines>>
        /\ UNCHANGED <<textVars, synthVars, callVars, parseVars, promptVars,
                       legacyVars, engineVars>>

\* worker.terminate() on the call's own worker
TerminateOwnWorker(c) ==
    [tesseractWorkers EXCEPT ![converters[c].worker].state = "terminated",
                             ![converters[c].worker].terminatedBy = c]

\* The page loop is over: ocr_worker_terminate, worker.terminate() settles,
\* ocr_extraction_complete, then _initializeWebLLM up to the await of
\* checkWebGPUCapability.
PairPagesDone ==
    \E c \in CallIds :
        /\ converters[c].pc = "pages"
        /\ tesseractWorkers' = TerminateOwnWorker(c)
        /\ converters' = [converters EXCEPT ![c].pc = "webgpu_check"]
        /\ UNCHANGED <<workerSrc, webllmEngines>>
        /\ UNCHANGED <<textVars, synthVars, callVars, parseVars, promptVars,
                       legacyVars, engineVars>>

\* The document or a page read rejects: the catch terminates the call's
\* worker and rethrows, and the scenario goes to its finally.
PairExtractionFails ==
    \E c \in CallIds :
        /\ converters[c].pc = "pages"
        /\ tesseractWorkers' = TerminateOwnWorker(c)
        /\ converters' = [converters EXCEPT ![c].pc = "cleanup",
                                            ![c].outcome = "rejected"]
        /\ UNCHANGED <<workerSrc, webllmEngines>>
        /\ UNCHANGED <<textVars, synthVars, callVars, parseVars, promptVars,
                       legacyVars, engineVars>>

\* WebGPU is supported: this.webllmEngine = new WebLLMEngine(...), and
\* initialize and generate are awaited on it.
PairInitializeWebLLM ==
    \E c \in CallIds :
        /\ converters[c].pc = "webgpu_check"
        /\ webllmEngines' =
              Append(webllmEngines,
                     [createdBy |-> c, state |-> "loaded", cleanedBy |-> 0])
        /\ converters' = [converters EXCEPT ![c].pc = "generate",
                                            ![c].webllmEngine = Len(webllmEngines) + 1]
        /\ UNCHANGED <<workerSrc, tesseractWorkers>>
        /\ UNCHANGED <<textVars, synthVars, callVars, parseVars, promptVars,
                       legacyVars, engineVars>>

\* this.webllmEngine.generate settles: it rejects on an engine that was
\* cleaned up.
PairRewriteSettles ==
    \E c \in CallIds :
        /\ converters[c].pc = "generate"
        /\ converters' =
              [converters EXCEPT
                 ![c].pc = "cleanup",
                 ![c].outcome =
                     IF webllmEngines[converters[c].webllmEngine].state = "loaded"
                     THEN "resolved" ELSE "rejected"]
        /\ UNCHANGED <<workerSrc, tesseractWorkers, webllmEngines>>
        /\ UNCHANGED <<textVars, synthVars, callVars, parseVars, promptVars,
                       legacyVars, engineVars>>

\* _cleanup in the finally of the scenario.
PairCleanup ==
    \E c \in CallIds :
        /\ converters[c].pc = "cleanup"
        /\ webllmEngines' =
              IF converters[c].webllmEngine # 0
              THEN [webllmEngines EXCEPT
                      ![converters[c].webllmEngine].state = "cleaned",
                      ![converters[c].webllmEngine].cleanedBy = c]
              ELSE webllmEngines
        /\ converters' = [converters EXCEPT ![c].pc = "settled",
                                            ![c].webllmEngine = 0]
        /\ UNCHANGED <<workerSrc, tesseractWorkers>>
        /\ UNCHANGED <<textVars, synthVars, callVars, parseVars, promptVars,
                       legacyVars, engineVars>>

PairNext ==
    \/ PairCall
    \/ PairWorkerReady
    \/ PairGetDocument
    \/ PairPagesDone
    \/ PairExtractionFails
    \/ PairInitializeWebLLM
    \/ PairRewriteSettles
    \/ PairCleanup

SpecPair == PairInit /\ [][PairNext]_vars

(***************************************************************************)
(* Properties.                                                             *)
(***************************************************************************)
Range(q) == {q[k] : k \in 1..Len(q)}

HasMalformedRule(list) == \E k \in 1..Len(list) : ~RuleIsUsable(list[k])

\* Three line breaks in a row somewhere in s.
HasTripleNewline(s) ==
    \E k \in 1..(Len(s) - 2) : s[k] = NL /\ s[k + 1] = NL /\ s[k + 2] = NL

HasBlankLine(s) == \E k \in 1..(Len(s) - 1) : s[k] = NL /\ s[k + 1] = NL

\* The pages of 1..n outside of failed, in page order.
RECURSIVE PagesInOrder(_, _)
PagesInOrder(n, failed) ==
    IF n = 0 THEN <<>>
    ELSE PagesInOrder(n - 1, failed) \o (IF n \in failed THEN <<>> ELSE <<n>>)

\* The rules _postProcessText would apply if it kept the declared order:
\* the built-in rules, then the caller's rules, malformed ones skipped.
DeclaredOrderText(text, split, customRules) ==
    IF text = <<>> THEN <<>>
    ELSE FinalNormalization(
             ApplyRules(text, SelectSeq(DefaultRules(split) \o customRules, RuleIsUsable)))

(* C1 as stated: whenever quickConvertOnly or highAccuracyConvertOnly       *)
(* resolves, the Markdown is non-empty exactly when the raw text has a      *)
(* character that is not whitespace.                                        *)
C1_NonEmptyIffRawHasNonWhitespace ==
    tpc = "resolved" => (markdown # <<>> <=> HasNonWS(rawText))

(* C1 amended: whenever quickConvertOnly or highAccuracyConvertOnly         *)
(* resolves, the Markdown is non-empty exactly when the normalized text is  *)
(* non-empty; and with no caller rules, exactly when the raw text has a     *)
(* character that is neither whitespace nor a soft hyphen.                  *)
C1_NonEmptyIffNormalizedNonEmpty ==
    tpc = "resolved" =>
        /\ markdown # <<>> <=> cleaned # <<>>
        /\ rules = <<>> =>
               (markdown # <<>> <=>
                    \E k \in 1..Len(rawText) : ~IsWS(rawText[k]) /\ rawText[k] # "00AD")

\* A document of soft hyphens and blanks only converts to the empty Markdown.
C1_SoftHyphenOnlyResolvesEmpty ==
    /\ tpc = "resolved"
    /\ rules = <<>>
    /\ HasNonWS(rawText)
    /\ cleaned = <<>>
    /\ markdown = <<>>

(* C2: in the OCR adapter a page whose render or recognition throws gets a  *)
(* warning progress event, the next page (if any) is started, the adapter   *)
(* never fails because of that page, and the text it returns is the text of *)
(* every successful page, in page order.                                    *)
C2_PageFailureIsLocal ==
    /\ \A k \in ocr.failedPages :
        /\ PageEv("ocr_page_warning", k) \in Range(ocr.log)
        /\ k < numPages => PageProgress("ocr_page_process", k + 1, numPages) \in Range(ocr.log)
    /\ ocr.pc \in {"failed", "catchTerminate"} =>
           ocr.err \in {"input", "workerInit", "arrayBuffer", "getDocument", "getPage"}
    /\ ocr.pc \in {"awaitTerminate", "done"} =>
           ocr.fullText = PagesInOrder(numPages, ocr.failedPages)

\* The first page failed, the second was recognized, and the adapter returned.
C2_FailedPageThenSuccessfulPage ==
    /\ ocr.pc = "done"
    /\ ocr.failedPages = {1}
    /\ ocr.fullText = <<2>>

(* C3: in scenario 5, once either extraction has thrown, no inference       *)
(* engine is constructed, initialised or asked to generate, and the call    *)
(* settles only by rejecting, with the error of the extraction.             *)
C3_ExtractionFailureSkipsEngine ==
    (scenario = 5 /\ (quick.pc = "failed" \/ ocr.pc = "failed")) =>
        /\ llm.constructed = 0
        /\ llm.initializeCalls = 0
        /\ llm.generateCalls = 0
        /\ llm.gpu = "unchecked"
        /\ orch.pc = "settled" => (orch.outcome = "rejected" /\ orch.result = orch.joinErr)

\* Scenario 5 rejected after the OCR adapter failed while the text-layer
\* adapter had returned.
C3_RejectedAfterOneExtractionFailed ==
    /\ scenario = 5
    /\ quick.pc = "done"
    /\ ocr.pc = "failed"
    /\ orch.pc = "settled"
    /\ orch.outcome = "rejected"

(* C4 as stated: once the OCR adapter has returned or thrown, every worker  *)
(* that createWorker produced has been asked to terminate.                  *)
C4_EveryWorkerTerminated ==
    (ocr.pc \in {"done", "failed"} /\ ocr.workerPromise = "resolved") =>
        ocr.terminateCalls >= 1

C6_NoGenerationWithoutEngine ==
    (UsesLLM(scenario) /\ (llm.gpu = "unsupported" \/ llm.initResult = "failed")) =>
        /\ llm.generateCalls = 0
        /\ orch.pc \notin {"generating"}
        /\ orch.pc = "settled" => orch.outcome = "rejected"
        /\ llm.gpu = "unsupported" => llm.constructed = 0

\* The engine's initialize rejected and the call has rejected.
C6_RejectedAfterInitFailure ==
    /\ UsesLLM(scenario)
    /\ llm.initResult = "failed"
    /\ orch.pc = "settled"
    /\ orch.outcome = "rejected"

(* C7: in scenario 5 both extractions are started before the call awaits    *)
(* anything, and the capability check, the initialization of the engine and *)
(* the generation happen only after both extractions have returned.         *)
C7_BothStartedThenBothDone ==
    scenario = 5 =>
        /\ (orch.pc # "start" /\ config.valid) => (quick.pc # "idle" /\ ocr.pc # "idle")
        /\ ( \/ orch.pc \in {"gpuCheck", "engineInit", "generating"}
             \/ llm.gpu # "unchecked"
             \/ llm.constructed > 0
             \/ llm.initializeCalls > 0
             \/ llm.generateCalls > 0 ) => (quick.pc = "done" /\ ocr.pc = "done")

\* Scenario 5 is generating.
C7_GeneratingInScenarioFive ==
    /\ scenario = 5
    /\ orch.pc = "generating"
    /\ llm.generateCalls = 1

(* C8 as stated: a malformed caller rule is skipped: the call does not      *)
(* reject because of it, and a call that resolves has sent a warning to the *)
(* progress callback.                                                       *)
C8_MalformedRuleSkippedWithWarning ==
    HasMalformedRule(rules) =>
        /\ tpc = "rejected" => progress # <<>>
        /\ tpc = "resolved" => "postprocess_rule_warning" \in Range(progress)

(* C9 as stated: the normalized text is the raw text with the rules applied *)
(* in declared order, the built-in rules and then the caller's rules.       *)
C9_RulesAppliedInDeclaredOrder ==
    tpc \in {"extracted", "resolved"} =>
        cleaned = DeclaredOrderText(rawText, splitPascalCase, rules)

(* C10: the Markdown that _convertToMarkdown returns has no run of three or *)
(* more line breaks.                                                        *)
C10_NoTripleNewline ==
    spc = "returned" => ~HasTripleNewline(finalMarkdown)

\* An input with two blank lines in a row between two lines of text, whose
\* Markdown has a blank line.
C10_BlankLinesCollapsed ==
    /\ spc = "returned"
    /\ \E k \in 2..(Len(inputLines) - 2) :
        /\ Trim(inputLines[k]) = <<>>
        /\ Trim(inputLines[k + 1]) = <<>>
        /\ Trim(inputLines[k - 1]) # <<>>
        /\ Trim(inputLines[k + 2]) # <<>>
    /\ HasBlankLine(finalMarkdown)

(* C11 as stated: with the PascalCase option off, normalizing the          *)
(* normalized text again, under the same rule list, changes nothing.        *)
C11_NormalizationIdempotent ==
    (tpc \in {"extracted", "resolved"} /\ ~splitPascalCase) =>
        PostProcessText(cleaned, splitPascalCase, rules) = cleaned

(* C11 amended: with the PascalCase option off and no caller rules,         *)
(* normalizing the normalized text again changes nothing.                   *)
C11_BuiltinNormalizationIdempotent ==
    (tpc \in {"extracted", "resolved"} /\ ~splitPascalCase /\ rules = <<>>) =>
        PostProcessText(cleaned, splitPascalCase, rules) = cleaned

\* The built-in rules alone rewrote a raw text into a non-empty text.
C11_BuiltinRulesChangedText ==
    /\ tpc = "extracted"
    /\ ~splitPascalCase
    /\ rules = <<>>
    /\ cleaned # <<>>
    /\ cleaned # rawText
    /\ \E k \in 1..Len(rawText) : rawText[k] \in {"00AD", "FB01"}

\* Helpers for the properties of the synthesis.
IsBlankLine(l) == Trim(l) = <<>>

Contains(o, l) == \E d \in 0..(Len(o) - Len(l)) : SubSeq(o, d + 1, d + Len(l)) = l

\* The texts of the input lines that are one character under the limit and do
\* not end in sentence punctuation.
LimitLines ==
    {Trim(inputLines[k]) : k \in {j \in 1..Len(inputLines) :
        /\ Len(Trim(inputLines[j])) = ShortLineLimit - 1
        /\ Trim(inputLines[j])[ShortLineLimit - 1] \notin SentencePunct}}

Occurrences(t) == {k \in 1..Len(inputLines) : Trim(inputLines[k]) = t}

FollowedByBlank(k) == k < Len(inputLines) /\ IsBlankLine(inputLines[k + 1])
FollowedByText(k) == k < Len(inputLines) /\ ~IsBlankLine(inputLines[k + 1])

\* Two whitespace characters in a row somewhere in the line.
HasWideGap(l) == \E a \in 1..(Len(l) - 1) : IsWS(l[a]) /\ IsWS(l[a + 1])

\* An output line that is no heading and holds the text t.
InParagraph(t) ==
    \E o \in Range(markdownOutputLines) : Contains(o, t) /\ ~IsPrefix(HeadingMark, o)

(* C12 as stated: a 79-character line with no trailing sentence punctuation *)
(* is a heading when a blank line follows it, and is no heading when a      *)
(* non-blank line follows it (every occurrence of it).                      *)
C12_LimitLineHeadingIffBlankFollows ==
    spc = "returned" =>
        \A t \in LimitLines :
            /\ (\E k \in Occurrences(t) : FollowedByBlank(k)) =>
                   HeadingMark \o t \in Range(markdownOutputLines)
            /\ (\A k \in Occurrences(t) : FollowedByText(k)) =>
                   HeadingMark \o t \notin Range(markdownOutputLines)

(* C12 amended: a 79-character line with no trailing sentence punctuation   *)
(* that is followed by a blank line is emitted as a heading; followed by a  *)
(* non-blank line it is a heading exactly when it is an all-caps line, and  *)
(* when it is not all-caps and has no two whitespace characters in a row    *)
(* (so that it is no table candidate) it is part of a paragraph.            *)
C12_LimitLineHeadingUnlessAllCaps ==
    spc = "returned" =>
        \A t \in LimitLines :
            /\ (\E k \in Occurrences(t) : FollowedByBlank(k)) =>
                   HeadingMark \o t \in Range(markdownOutputLines)
            /\ (\A k \in Occurrences(t) : FollowedByText(k)) =>
                   /\ HeadingMark \o t \in Range(markdownOutputLines) <=> IsAllCapsLine(t)
                   /\ (~IsAllCapsLine(t) /\ ~HasWideGap(t)) => InParagraph(t)

\* A 79-character line in small letters once before a blank line (a heading)
\* and a 79-character line in capitals before a sentence (a heading too).
C12_LimitLineBeforeBlankAndCapitalsBeforeText ==
    /\ spc = "returned"
    /\ Len(inputLines) = 3
    /\ inputLines[1] = Repeat("A", ShortLineLimit - 1)
    /\ inputLines[2] = Repeat("a", ShortLineLimit - 1)
    /\ inputLines[3] = <<>>
    /\ markdownOutputLines[1] = HeadingMark \o inputLines[1]
    /\ HeadingMark \o inputLines[2] \in Range(markdownOutputLines)

\* The maximal runs a..b of consecutive input lines that all satisfy on.
MaximalRuns(on(_)) ==
    {r \in (1..Len(inputLines)) \X (1..Len(inputLines)) :
        /\ r[1] <= r[2]
        /\ \A k \in r[1]..r[2] : on(k)
        /\ r[1] = 1 \/ ~on(r[1] - 1)
        /\ r[2] = Len(inputLines) \/ ~on(r[2] + 1)}

\* The output holds the lines a..b of the input between two fences.
FencedInOutput(a, b) ==
    LET block == <<Fence>> \o MapTrimEnd(SubSeq(inputLines, a, b)) \o <<Fence>>
    IN \E p \in 1..Len(markdownOutputLines) :
        /\ p + Len(block) - 1 <= Len(markdownOutputLines)
        /\ SubSeq(markdownOutputLines, p, p + Len(block) - 1) = block

\* The output holds input line a as a line of its own, with no fence next to it.
PlainInOutput(a) ==
    \E p \in 1..Len(markdownOutputLines) :
        /\ markdownOutputLines[p] = Trim(inputLines[a])
        /\ p = 1 \/ markdownOutputLines[p - 1] # Fence
        /\ p = Len(markdownOutputLines) \/ markdownOutputLines[p + 1] # Fence

FenceCount == Cardinality({p \in 1..Len(markdownOutputLines) : markdownOutputLines[p] = Fence})

HasColumns(k) == HasMultipleSpacesBetweenWords(inputLines[k])

\* A line that reaches the table branch of the loop: not blank, no heading, a
\* table candidate.
IsBufferedLine(k) ==
    /\ ~IsBlankLine(inputLines[k])
    /\ ~IsHeading(inputLines, k)
    /\ IsTableCandidate(inputLines[k])

(* C13 as stated: every run of two or more consecutive lines with           *)
(* double-space-separated columns is emitted as one fenced block holding    *)
(* all lines of the run, and a run of one such line as a plain line.        *)
C13_ColumnRunsFenced ==
    spc = "returned" =>
        \A r \in MaximalRuns(HasColumns) :
            IF r[2] > r[1] THEN FencedInOutput(r[1], r[2]) ELSE PlainInOutput(r[1])

(* C13 amended: every maximal run of consecutive table-candidate lines that *)
(* are no headings is emitted as one fenced block holding all its lines     *)
(* (trailing whitespace trimmed) when it has two or more lines, and as a    *)
(* plain line without fences when it has one; nothing else is fenced.       *)
C13_BufferedRunsFenced ==
    spc = "returned" =>
        /\ \A r \in MaximalRuns(IsBufferedLine) :
            IF r[2] > r[1] THEN FencedInOutput(r[1], r[2]) ELSE PlainInOutput(r[1])
        /\ FenceCount = 2 * Cardinality({r \in MaximalRuns(IsBufferedLine) : r[2] > r[1]})

\* Two lines with columns and then a sentence: one fenced block.
C13_TwoColumnLinesFenced ==
    /\ spc = "returned"
    /\ Len(inputLines) = 3
    /\ HasColumns(1)
    /\ HasColumns(2)
    /\ inputLines[3] = <<"a", ".">>
    /\ FencedInOutput(1, 2)
    /\ FenceCount = 2

IsSuffix(t, o) == Len(t) <= Len(o) /\ SubSeq(o, Len(o) - Len(t) + 1, Len(o)) = t

\* A line that reaches the last branch of the loop: a fragment of a paragraph.
IsProseLine(k) ==
    /\ ~IsBlankLine(inputLines[k])
    /\ ~IsHeading(inputLines, k)
    /\ ~IsTableCandidate(inputLines[k])

\* Lines k and m with one or more lines between them, all of them blank.
SeparatedByBlankLines(k, m) ==
    /\ k + 1 < m
    /\ \A j \in (k + 1)..(m - 1) : IsBlankLine(inputLines[j])

(* C14: two prose lines with only blank lines (one or more) between them    *)
(* come out as the end of one paragraph and the start of the next, with     *)
(* exactly one empty line between the two paragraphs.                       *)
C14_ParagraphsSeparatedByOneBlankLine ==
    spc = "returned" =>
        \A k, m \in 1..Len(inputLines) :
            (IsProseLine(k) /\ IsProseLine(m) /\ SeparatedByBlankLines(k, m)) =>
                LET lines == SplitLines(finalMarkdown)
                IN \E p \in 1..(Len(lines) - 2) :
                    /\ IsSuffix(Trim(inputLines[k]), lines[p])
                    /\ lines[p + 1] = <<>>
                    /\ IsPrefix(Trim(inputLines[m]), lines[p + 2])
                    /\ ~IsPrefix(HeadingMark, lines[p])
                    /\ ~IsPrefix(HeadingMark, lines[p + 2])

\* Two sentences with two blank lines between them.
C14_TwoSentencesTwoBlankLines ==
    /\ spc = "returned"
    /\ inputLines = << <<"a", ".">>, <<>>, <<SP>>, <<"a", ".">> >>
    /\ finalMarkdown = <<"a", ".", NL, NL, "a", ".">>

\* A complete <think>...</think> block somewhere in s.
HasThinkBlock(s) ==
    \E a \in 0..Len(s) : \E b \in 0..Len(s) :
        /\ IsPrefix(OpenTag, Drop(s, a))
        /\ b >= a + Len(OpenTag)
        /\ IsPrefix(CloseTag, Drop(s, b))

(* C15: whatever the model answered, the text that parse returns holds no  *)
(* complete <think>...</think> block, and the answer made of               *)
(* '<think>reasoning</think>', a blank line and 'Final answer.' comes back *)
(* as 'Final answer.'.                                                     *)
C15_NoThinkBlockInParsedOutput ==
    ppc = "returned" =>
        /\ ~HasThinkBlock(cleanedOutput)
        /\ rawOutput = ThinkThenAnswer => cleanedOutput = FinalAnswer

\* The error types of the taxonomy.
TypedErrors == {"InputError", "ExtractionError", "InferenceError", "ConfigurationError"}

(* C16: a scenario call settles once, resolved with a Markdown string or   *)
(* rejected with one error whose type or name is one of InputError,        *)
(* ExtractionError, InferenceError and ConfigurationError.                 *)
C16_RejectsWithTypedError ==
    orch.pc = "settled" =>
        \/ orch.outcome = "resolved" /\ orch.result = "value"
        \/ orch.outcome = "rejected" /\ ErrorName(orch.result) \in TypedErrors

\* The model the caller configured: the custom model's id, else the
\* configured id, else the default.
ConfiguredModel(c) ==
    IF c.customModel THEN "customModelId"
    ELSE IF c.model # "none" THEN c.model
    ELSE DefaultModel

\* The failures of extraction, the capability check, initialisation and
\* generation.
StageFailures ==
    {"input", "workerInit", "webgpu", "engineInit", "generate"} \cup LibraryCauses

(* C17: in scenarios 3, 4 and 5 the engine is initialised with the model   *)
(* the caller configured (the custom model's id, else the configured id);  *)
(* under the configuration validate({}) gives, it is initialised with      *)
(* 'Qwen3-0.6B-q4f16_1-MLC'; and the call resolves when extraction, the   *)
(* capability check, initialisation and generation all succeed, that is,   *)
(* it rejects only with the failure of one of those.                       *)
C17_ConfiguredModelAndResolves ==
    /\ llm.initializeCalls > 0 => llm.targetModelId = ConfiguredModel(config)
    /\ (orch.pc = "settled" /\ config = ValidatedDefaultConfig /\ UsesLLM(scenario))
          => /\ orch.outcome = "rejected" => orch.result \in StageFailures
             /\ orch.outcome = "resolved" => llm.targetModelId = DefaultModel

(* C18: when the recognition worker cannot be created, or is not created   *)
(* before the timer of the initialisation fires, the adapter rejects with  *)
(* the worker-initialisation error, it renders and recognises no page, and *)
(* the scenario that uses it (2, 4 or 5) does not resolve; the adapter     *)
(* goes past the creation only with a worker.                              *)
C18_WorkerInitFailureRejectsCall ==
    /\ ocr.err = "workerInit" =>
          /\ ocr.pc = "failed"
          /\ ocr.workerPromise # "none" /\ ~ocr.workerInitialized
          /\ ocr.pageNum = 0 /\ ocr.rendered = <<>> /\ ocr.recognized = <<>>
          /\ UsesOcr(scenario)
          /\ orch.body # "value" /\ orch.outcome # "resolved"
          /\ orch.pc \in {"extracting", "cleanupEngine", "finally", "settled"}
          /\ orch.pc = "settled" => orch.outcome = "rejected"
    /\ (ocr.pc \notin {"off", "idle", "awaitWorker"} /\ ocr.err # "input"
          /\ ~ocr.workerInitialized) => ocr.err = "workerInit"

\* Scenario 5 rejected with the worker-initialisation error after the timer
\* fired with the worker still being created.
C18_RejectedAfterInitialisationTimeout ==
    /\ scenario = 5
    /\ orch.pc = "settled" /\ orch.outcome = "rejected" /\ orch.result = "workerInit"
    /\ ocr.err = "workerInit" /\ ocr.workerPromise = "pending"

(* C19: once a call of scenario 3, 4 or 5 has settled, the converter holds *)
(* no inference engine (webllmEngine is null) and the engine it acquired   *)
(* is not ready (engine null, isInitialized false, currentModelId null),   *)
(* wherever the call failed.                                               *)
C19_NoEngineAfterSettle ==
    (orch.pc = "settled" /\ UsesLLM(scenario)) =>
        /\ ~llm.webllmEngine
        /\ ~llm.engine /\ ~llm.isInitialized /\ llm.currentModelId = "none"

\* No page number occurs twice in pages.
EachPageOnce(pages) ==
    \A a \in 1..Len(pages) : \A b \in 1..Len(pages) : pages[a] = pages[b] => a = b

(* C20: nothing is retried: in one scenario call the recognition worker is *)
(* created at most once, each page is rendered at most once and submitted  *)
(* for recognition at most once, the engine is constructed and initialised *)
(* at most once and generate is invoked at most once, whatever fails.      *)
C20_NothingIsRetried ==
    /\ ocr.createWorkerCalls <= 1
    /\ EachPageOnce(ocr.rendered)
    /\ EachPageOnce(ocr.recognized)
    /\ llm.constructed <= 1
    /\ llm.initializeCalls <= 1
    /\ llm.generateCalls <= 1

\* Scenario 5 rejected by a failed generation after a page failed in
\* recognition: every operation has run once.
C20_FailuresWithoutRetry ==
    /\ scenario = 5
    /\ orch.pc = "settled" /\ orch.outcome = "rejected" /\ orch.result = "generate"
    /\ ocr.createWorkerCalls = 1
    /\ ocr.failedPages # {}
    /\ Len(ocr.rendered) = numPages
    /\ Len(ocr.recognized) >= 1
    /\ llm.initializeCalls = 1 /\ llm.generateCalls = 1

\* The base instruction block of a prompt shape.
BaseOf(type) == IF type = "single" THEN SingleBase ELSE CombinedBase

(* C21: for both prompt shapes and every customization, the system prompt  *)
(* begins with the unmodified base block of the shape; a non-empty         *)
(* customization follows it under the 'Additional Instructions' heading,   *)
(* and an empty customization gives exactly the base block.                *)
C21_CustomizationExtendsBase ==
    bpc = "built" =>
        LET base == BaseOf(scenarioType)
            rest == Drop(systemPrompt, Len(base))
        IN /\ IsPrefix(base, systemPrompt)
           /\ customization = <<>> => rest = <<>>
           /\ customization # <<>> =>
                 /\ IsPrefix(AdditionalInstructions, rest)
                 /\ Drop(rest, Len(AdditionalInstructions)) = customization

\* The combined prompt built with a customization that itself holds a line
\* break.
C21_CombinedPromptWithCustomization ==
    /\ bpc = "built"
    /\ scenarioType = "combined"
    /\ customization = <<"c", NL, "c">>
    /\ Len(systemPrompt) = Len(CombinedBase) + Len(AdditionalInstructions) + 3

(* C22: quickConvertOnly without a document (null) never resolves: under a *)
(* configuration the validator accepts (one with unrecognised keys is      *)
(* accepted: deepMerge copies them and nothing checks them) it rejects     *)
(* with an error whose message says 'PDF file is required'; under one the  *)
(* validator refuses it rejects with the validation error.                 *)
C22_NullDocumentReportsPdfRequired ==
    (scenario = 1 /\ file = "notFile" /\ orch.pc = "settled") =>
        /\ orch.outcome = "rejected"
        /\ IF config.valid
           THEN /\ orch.result = "input"
                /\ "PDF file is required" \in Range(InputErrorMessage(file))
           ELSE orch.result = "config"

\* The converter holds at most one object with a model, and it is the one
\* the library holds; a creation starts with none held; generation runs on
\* the requested model; after a resolved unloadLLM nothing is held.
OneModelLoaded ==
    lpc # "off" =>
        /\ Cardinality(loaded) <= 1
        /\ loaded \subseteq {chatModule.id}
        /\ lpc = "creating" => loaded = {}
        /\ lpc = "generating" => (llmInitialized /\ chatModule.modelId = request)
        /\ (lpc = "idle" /\ lastCall = "unloadResolved") =>
              /\ chatModule = NoModule /\ ~llmInitialized /\ loaded = {}

\* llmRewrite for the model that is initialised goes to generate with the
\* object it holds.
SameModelNotReloaded ==
    (/\ lpc = "idle" /\ lpc' \notin {"idle", "unloading"}
     /\ AlreadyInitialized(llmInitialized, chatModule, request'))
        => (lpc' = "generating" /\ UNCHANGED <<chatModule, loaded, llmInitialized>>)

\* llmRewrite after a resolved unloadLLM starts a creation.
InitialisesAfterUnload ==
    (lpc = "idle" /\ lastCall = "unloadResolved" /\ lpc' # "idle") => lpc' = "creating"

(* C23: over llmRewrite and unloadLLM calls made one after another on a    *)
(* legacy converter, at most one model is loaded at any time: a request    *)
(* for another model unloads the loaded one before the new one is created, *)
(* a request for the same model does not reload it; after unloadLLM has    *)
(* resolved none is loaded (chatModule null, llmInitialized false) and the *)
(* next llmRewrite initialises again.                                      *)
C23_AtMostOneModelLoaded ==
    /\ []OneModelLoaded
    /\ [][SameModelNotReloaded]_vars
    /\ [][InitialisesAfterUnload]_vars

\* The third call, an llmRewrite for another model after llmRewrite and
\* unloadLLM, has its model loaded and generates.
C23_ReloadedAfterUnload ==
    /\ calls = 3 /\ lpc = "generating" /\ lastCall = "unloadResolved"
    /\ chatModule = [id |-> 3, modelId |-> "other"]
    /\ loaded = {3}

\* Two white-space characters next to each other somewhere in s.
HasWhiteSpaceRun(s) == \E k \in 1..(Len(s) - 1) : IsWS(s[k]) /\ IsWS(s[k + 1])

\* The normalized text is one line with single blanks, and neither a fence
\* nor a line break is in the Markdown made from it.
OneLineNoFence ==
    /\ (tpc \in {"extracted", "resolved"} /\ rules = <<>>) =>
          (NL \notin Range(cleaned) /\ ~HasWhiteSpaceRun(cleaned))
    /\ (tpc = "resolved" /\ rules = <<>>) =>
          (~Contains(markdown, Fence) /\ NL \notin Range(markdown))

HeadingEmitted ==
    /\ Len(markdownOutputLines') >= Len(markdownOutputLines) + 2
    /\ markdownOutputLines'[Len(markdownOutputLines') - 1]
          = HeadingMark \o Trim(inputLines[i])
    /\ markdownOutputLines'[Len(markdownOutputLines')] = <<>>

PunctuationChars == SentencePunct \cup {"_", "-", "'", "\"", "#"}

CapitalsDigitsSpacePunctuation(t) ==
    /\ \A k \in 1..Len(t) :
          t[k] \in UpperChars \cup DigitChars \cup WhiteSpace \cup PunctuationChars
    /\ \E k \in 1..Len(t) : t[k] \in UpperChars
    /\ \E k \in 1..Len(t) : t[k] \notin DigitChars
    /\ Len(t) \in 3..79

NoSmallLetterNoUnderscore(t) ==
    /\ \A k \in 1..Len(t) : t[k] \notin LowerChars /\ t[k] # "_"
    /\ \E k \in 1..Len(t) : t[k] \in UpperChars
    /\ Len(t) \in 3..79

ShortOpenBeforeBlank(lines, k, least) ==
    LET t == Trim(lines[k])
    IN /\ Len(t) \in least..79
       /\ t[Len(t)] \notin SentencePunct
       /\ (k = Len(lines) \/ Trim(lines[k + 1]) = <<>>)

(* C25 as stated: a non-blank line is a heading exactly when (a) it holds  *)
(* only capitals, digits, white space and punctuation, has a capital, is   *)
(* not purely numeric and is 3 to 79 long, or (b) it is 1 to 79 long, does *)
(* not end in . , ; : ! ? and a blank line or the end of input follows.    *)
C25_HeadingIffCapitalsOrShortBeforeBlank ==
    [][(SynthLine /\ Trim(inputLines[i]) # <<>>) =>
          (HeadingEmitted <=>
              \/ CapitalsDigitsSpacePunctuation(Trim(inputLines[i]))
              \/ ShortOpenBeforeBlank(inputLines, i, 1))]_vars

(* C25: a non-blank line is a heading exactly when (a) it holds no small   *)
(* letter a-z and no underscore, has a capital A-Z and is 3 to 79 long, or *)
(* (b) it is 2 to 79 long, does not end in . , ; : ! ? and a blank line or *)
(* the end of input follows; every other non-blank line is not a heading.  *)
C25_HeadingIffNoSmallLetterOrTwoPlusBeforeBlank ==
    [][(SynthLine /\ Trim(inputLines[i]) # <<>>) =>
          (HeadingEmitted <=>
              \/ NoSmallLetterNoUnderscore(Trim(inputLines[i]))
              \/ ShortOpenBeforeBlank(inputLines, i, 2))]_vars

\* Capitals ending in a mark before text are a heading; one letter before a
\* blank line is not.
C25_CapitalsHeadingOneLetterParagraph ==
    /\ spc = "returned"
    /\ inputLines = << <<"A", "1", "!">>, <<"a">>, <<>> >>
    /\ markdownOutputLines = << <<"#", SP, "A", "1", "!">>, <<>>, <<"a">>, <<>> >>

(***************************************************************************)
(* The two extraction paths of combinedConvertWithLLM.                     *)
(***************************************************************************)
\* The adapter was not started, has returned or has thrown.
PathStopped(p) == p.pc \in {"idle", "done", "failed"}

(* C26: when a combinedConvertWithLLM call has settled, rejections         *)
(* included, neither extraction path of the call is still running and the  *)
(* recognition worker created for the call has been asked to terminate.    *)
C26_NoPathRunningAfterSettle ==
    (scenario = 5 /\ orch.pc = "settled") =>
        /\ PathStopped(quick)
        /\ PathStopped(ocr)
        /\ ocr.workerInitialized => ocr.terminateCalls > 0

(***************************************************************************)
(* Termination of the recognition worker.                                  *)
(***************************************************************************)
\* The race after the last page has settled, whatever worker.terminate() did,
\* and the adapter returned what it returns when termination succeeds.
ReturnsAsIfTerminated ==
    (ocr.pc = "awaitTerminate" /\ ocr' # ocr) =>
        /\ ocr'.terminateResult \in {"resolved", "rejected", "timeout"}
        /\ [ocr' EXCEPT !.terminateResult = "resolved"] = AfterTerminate(ocr, "resolved")
        /\ ocr'.fullText = ocr.fullText

\* The race in the outer catch has settled and the original error is thrown.
RethrowsOriginalError ==
    (ocr.pc = "catchTerminate" /\ ocr' # ocr) =>
        /\ ocr'.pc = "failed"
        /\ ocr'.err = ocr.err
        /\ ocr'.err # "terminate"

(* C27: if worker.terminate() rejects or never settles the adapter still   *)
(* settles: after the last page it returns the text it returns when        *)
(* termination succeeds, and in the outer catch it rejects with the        *)
(* original error, never with the termination error.                       *)
C27_AdapterSettlesWhateverTerminateDoes ==
    /\ [][ReturnsAsIfTerminated]_vars
    /\ [][RethrowsOriginalError]_vars
    /\ (ocr.pc = "awaitTerminate") ~> (ocr.pc = "done")
    /\ (ocr.pc = "catchTerminate") ~> (ocr.pc = "failed")

\* The adapter returned the text of a page although terminate never settled.
C27_ReturnedAfterTerminateTimeout ==
    /\ ocr.pc = "done"
    /\ ocr.terminateResult = "timeout"
    /\ ocr.fullText # <<>>

(***************************************************************************)
(* The phases of a scenario run.                                           *)
(***************************************************************************)
\* The place of a scenario's position in extracting, rewriting, cleanup,
\* complete.
PhaseRank(pc) ==
    CASE pc = "start" -> 0
      [] pc = "extracting" -> 1
      [] pc = "gpuCheck" -> 2
      [] pc = "engineInit" -> 3
      [] pc = "generating" -> 4
      [] pc = "cleanupEngine" -> 5
      [] pc = "finally" -> 6
      [] OTHER -> 7

PhasesInOrder == PhaseRank(orch'.pc) >= PhaseRank(orch.pc)

\* generate is called only after every adapter of the scenario has returned
\* its normalized text.
GenerateAfterExtraction ==
    llm.generateCalls > 0 =>
        /\ UsesQuick(scenario) => quick.pc = "done"
        /\ UsesOcr(scenario) => ocr.pc = "done"

\* The completion event of the scenario is in the log only when the body
\* returned a value, and the call then resolves.
CompletionOnlyWhenResolved ==
    \A k \in 1..Len(orch.log) :
        orch.log[k].stage \in {"scenario_3_complete", "scenario_4_complete",
                                "scenario_5_complete", "quick_markdown_complete",
                                "ocr_markdown_complete"}
            => /\ orch.body = "value"
               /\ orch.pc = "settled" => orch.outcome = "resolved"

ErrorSeen == orch.joinErr # "none" \/ orch.body = "error" \/ orch.outcome = "rejected"

\* After an error no adapter moves on, generate is not called and the
\* scenario only goes through its cleanup.
NoPhaseAfterError ==
    ErrorSeen =>
        /\ quick'.pc = quick.pc
        /\ ocr'.pc = ocr.pc
        /\ llm'.generateCalls = llm.generateCalls
        /\ orch'.pc \in {orch.pc, "cleanupEngine", "finally", "settled"}

(* C28: in every scenario run the phases occur in the fixed order          *)
(* extracting, normalizing, rewriting (scenarios 3 to 5), complete, none   *)
(* repeated; generate is never invoked before extraction and normalization *)
(* of every source have completed; the completion event is emitted only    *)
(* when the call resolves; after an error no phase other than resource     *)
(* cleanup is entered.                                                     *)
C28_PhasesInOrderNoneAfterError ==
    /\ [][PhasesInOrder]_vars
    /\ []GenerateAfterExtraction
    /\ []CompletionOnlyWhenResolved
    /\ [][NoPhaseAfterError]_vars

(***************************************************************************)
(* The output line buffer of synthesis.                                    *)
(***************************************************************************)
\* The number of fence lines among the first k lines of the buffer.
FencesUpTo(out, k) == Cardinality({j \in 1..k : out[j] = Fence})

\* Line k opens a fenced block or lies inside one.
InsideFence(out, k) == FencesUpTo(out, k) % 2 = 1

NoTwoBlankLines(out) ==
    \A k \in 1..Len(out) : out[k] = <<>> => (k > 1 /\ out[k - 1] # <<>>)

\* What is not followed by a blank line is followed by the rest of its block.
EachBlockSeparated(out) ==
    /\ out # <<>> => out[Len(out)] = <<>>
    /\ \A k \in 1..(Len(out) - 1) :
          (out[k] # <<>> /\ out[k + 1] # <<>>) => InsideFence(out, k)

(* C29: at every step of synthesis the output line buffer never holds two  *)
(* consecutive blank lines, and every emitted heading, paragraph and block *)
(* is followed by exactly one blank separator line in the buffer.          *)
C29_BufferBlocksSeparatedOnce ==
    /\ NoTwoBlankLines(markdownOutputLines)
    /\ EachBlockSeparated(markdownOutputLines)

\* A paragraph and a fenced block are in the buffer while the last
\* paragraph is still collected.
C29_ParagraphAndBlockBuffered ==
    /\ spc = "loop"
    /\ i = Len(inputLines) + 1
    /\ currentParagraphCollector = << <<"a", ".">> >>
    /\ markdownOutputLines =
          << <<"a", ".">>, <<>>,
             Fence, <<"a", SP, SP, "b">>, <<"a", SP, SP, "b">>, Fence, <<>> >>

(***************************************************************************)
(* The words of the input and of the output of synthesis.                  *)
(***************************************************************************)
\* The maximal runs of characters of s that are not white space, in order.
RECURSIVE WordsOf(_)
WordsOf(s) ==
    LET t == TrimStart(s)
    IN IF t = <<>> THEN <<>>
       ELSE LET n == LengthBefore(t, {k \in 1..Len(t) : IsWS(t[k])})
            IN <<Take(t, n)>> \o WordsOf(Drop(t, n))

\* The lines without the fence lines and without the heading markers.
WithoutMarkers(lines) ==
    LET kept == SelectSeq(lines, LAMBDA l : l # Fence)
    IN [k \in 1..Len(kept) |->
          IF IsPrefix(HeadingMark, kept[k]) THEN Drop(kept[k], Len(HeadingMark))
          ELSE kept[k]]

WordsOfLines(lines) == WordsOf(Join(lines, <<NL>>))

\* The words pushed so far, then the collected ones, then those of the lines
\* still to be read, are the words of the input.
WordsKeptInLoop ==
    spc = "loop" =>
        WordsOfLines(WithoutMarkers(markdownOutputLines))
            \o WordsOfLines(currentParagraphCollector)
            \o WordsOfLines(potentialTableBlockLines)
            \o WordsOfLines(SubSeq(inputLines, i, Len(inputLines)))
          = WordsOfLines(inputLines)

(* C30: synthesis neither drops, duplicates nor reorders content: the      *)
(* sequence of whitespace-separated words of the non-blank input lines is  *)
(* the sequence of words of the output once the inserted heading markers   *)
(* and fence lines are removed.                                            *)
C30_WordsOfInputAreWordsOfOutput ==
    /\ WordsKeptInLoop
    /\ spc = "returned" =>
          WordsOfLines(WithoutMarkers(SplitLines(finalMarkdown)))
            = WordsOfLines(inputLines)

\* A heading, a paragraph and two column lines came out with the words of
\* the input.
C30_HeadingParagraphBlockReturned ==
    /\ spc = "returned"
    /\ inputLines = << <<"A", "B", "A">>, <<"a", ".">>, <<"a", SP, SP, "b">>,
                       <<"a", SP, SP, "b">> >>
    /\ WordsOfLines(inputLines)
          = << <<"A", "B", "A">>, <<"a", ".">>, <<"a">>, <<"b">>, <<"a">>, <<"b">> >>
    /\ WordsOfLines(WithoutMarkers(SplitLines(finalMarkdown))) = WordsOfLines(inputLines)

(***************************************************************************)
(* The per-page progress events of the two adapters.                       *)
(***************************************************************************)
PageEventsOf(log, stage) == SelectSeq(log, LAMBDA e : e.stage = stage)

\* The events of pages 1 to upTo, one each, in order, with the page count.
PageEventsUpTo(stage, upTo) ==
    [k \in 1..upTo |-> [stage |-> stage, page |-> k, total |-> numPages]]

\* The adapter has read the document and has returned or thrown.
LeftPageLoop(p) == p.pc \in {"done", "failed"} /\ p.pageNum >= 1

\* Nothing of a page is processed before the event of that page.
EventBeforeProcessing ==
    /\ \A k \in 1..Len(quick.fullText) : quick.fullText[k] <= quick.pageNum
    /\ \A k \in 1..Len(ocr.rendered) : ocr.rendered[k] <= ocr.pageNum
    /\ \A k \in 1..Len(ocr.recognized) : ocr.recognized[k] <= ocr.pageNum
    /\ \A k \in 1..Len(ocr.fullText) : ocr.fullText[k] <= ocr.pageNum
    /\ ocr.failedPages \subseteq 1..ocr.pageNum

(* C31 as stated: for a document of N pages each adapter emits exactly one *)
(* per-page event per page, currentPage 1 to N in increasing order with    *)
(* totalPages N; the event of page k precedes any processing of page k and *)
(* a page whose recognition fails still has its event.                     *)
C31_OneEventPerPageOfDocument ==
    /\ EventBeforeProcessing
    /\ LeftPageLoop(quick) =>
          PageEventsOf(quick.log, "pdfjs_page") = PageEventsUpTo("pdfjs_page", numPages)
    /\ LeftPageLoop(ocr) =>
          PageEventsOf(ocr.log, "ocr_page_process")
            = PageEventsUpTo("ocr_page_process", numPages)

(* C31: at every moment an adapter has emitted exactly one per-page event  *)
(* for each page it has started, pages 1 to the current page in increasing *)
(* order with totalPages N, and nothing of a page is processed before its  *)
(* event; an adapter that returns has done so for all N pages, a page      *)
(* whose rendering or recognition failed included; an adapter that throws  *)
(* at a page has emitted no event for the pages after it.                  *)
C31_OneEventPerStartedPage ==
    /\ EventBeforeProcessing
    /\ PageEventsOf(quick.log, "pdfjs_page") = PageEventsUpTo("pdfjs_page", quick.pageNum)
    /\ PageEventsOf(ocr.log, "ocr_page_process")
          = PageEventsUpTo("ocr_page_process", ocr.pageNum)
    /\ (quick.pc = "done" /\ quick.pageNum >= 1) => quick.pageNum = numPages
    /\ (ocr.pc = "done" /\ ocr.pageNum >= 1) => ocr.pageNum = numPages

\* Recognition failed on the first of two pages and both have their event.
C31_FailedPageHasEvent ==
    /\ ocr.pc = "done"
    /\ numPages = 2
    /\ ocr.failedPages = {1}
    /\ PageEventsOf(ocr.log, "ocr_page_process") = PageEventsUpTo("ocr_page_process", 2)

(***************************************************************************)
(* The page rasters of the OCR adapter.                                    *)
(***************************************************************************)
(* C32: during OCR extraction at most one page raster is live at any time: *)
(* the raster of page k is released before page k+1 is rendered, also when *)
(* rendering or recognition of page k throws.                              *)
C32_AtMostOneRasterLive ==
    /\ ocr.canvasLive <= 1
    /\ ocr.pc = "getPage" => ocr.canvasLive = 0
    /\ ocr.pc \in {"render", "recognize"} => ocr.canvasLive = 1

\* The second page is being rendered after the first one failed.
C32_SecondPageRenderedAfterFailure ==
    /\ ocr.pc = "render"
    /\ ocr.pageNum = 2
    /\ ocr.failedPages = {1}
    /\ ocr.canvasLive = 1

(***************************************************************************)
(* WebLLMEngine: the state of the engine and the guards of generation.     *)
(***************************************************************************)
\* An initialised engine holds a reference, and the current model id is the
\* one its CreateMLCEngine call was given.
InitializedHoldsLoadedModel ==
    isInitialized =>
        /\ engine # 0
        /\ currentModelId = createCalls[engine].modelId

\* A generation call on an engine that is not initialised rejects with the
\* not-initialised error and chat.completions.create is not called.
RejectsWhenNotInitialized ==
    ((Generate \/ GenerateStream) /\ (~isInitialized \/ engine = 0)) =>
        /\ outcome' = "notInitialized"
        /\ completions' = completions
        /\ epc' = "idle"

(* C33: under initialize, generate, generateStream and cleanup calls issued *)
(* one after another, isInitialized implies that the engine reference is    *)
(* non-null and currentModelId is the id of the loaded model; generate and  *)
(* generateStream reject with the not-initialised error, without calling    *)
(* the underlying engine, whenever the engine is not initialised.           *)
C33_InitializedIffUsable ==
    /\ []InitializedHoldsLoadedModel
    /\ [][RejectsWhenNotInitialized]_vars

\* A generation call was rejected after a failed initialize.
C33_RejectedAfterFailedInitialize ==
    /\ outcome = "notInitialized"
    /\ Len(createCalls) = 1
    /\ engine = 0
    /\ completions = 0

\* initialize with the loaded model: nothing is created, nothing changes.
SameModelChangesNothing ==
    (Initialize /\ isInitialized /\ target' = currentModelId) =>
        /\ UNCHANGED <<engine, isInitialized, currentModelId, createCalls>>
        /\ epc' = "idle"

\* initialize with another model: the current engine is dropped, then one
\* engine is created.
OtherModelDiscardsFirst ==
    (Initialize /\ isInitialized /\ target' # currentModelId) =>
        /\ engine' = 0
        /\ ~isInitialized'
        /\ currentModelId' = "null"
        /\ Len(createCalls') = Len(createCalls) + 1
        /\ createCalls'[Len(createCalls')].modelId = target'
        /\ epc' = "creating"

\* A creation that fails leaves no engine, whatever was loaded before.
FailedCreationLeavesNothing ==
    (epc = "creating" /\ epc' = "idle" /\ outcome' = "initFailed") =>
        /\ engine' = 0
        /\ ~isInitialized'
        /\ currentModelId' = "null"

(* C34: initialize called with the model id that is loaded creates no new  *)
(* engine and leaves the engine state unchanged; called with a different   *)
(* model id it discards the current engine before creating the new one,    *)
(* and if that creation fails the engine is left uninitialised.            *)
C34_SameModelKeptOtherModelReplaces ==
    /\ [][SameModelChangesNothing]_vars
    /\ [][OtherModelDiscardsFirst]_vars
    /\ [][FailedCreationLeavesNothing]_vars
    /\ [](epc = "creating" => (engine = 0 /\ ~isInitialized))

\* A second model was asked for after the first was loaded, and its creation
\* failed.
C34_SecondModelFailedNothingLoaded ==
    /\ Len(createCalls) = 2
    /\ createCalls[1].modelId # createCalls[2].modelId
    /\ outcome = "initFailed"
    /\ engine = 0
    /\ ~isInitialized

(* C35: when a custom model is configured the engine is created with an    *)
(* application configuration whose model list holds exactly that custom    *)
(* model configuration (the converter asks for the custom model's          *)
(* model_id); when none is configured the application configuration is     *)
(* null.                                                                   *)
C35_CustomModelInAppConfig ==
    \A k \in 1..Len(createCalls) :
        IF customModelConfig = NoCustomModel
        THEN createCalls[k].appConfig = <<>>
        ELSE createCalls[k].modelId = customModelConfig.model_id
                => createCalls[k].appConfig = <<customModelConfig>>

(***************************************************************************)
(* The layout of the parsed response.                                      *)
(***************************************************************************)
(* C36: for every input OutputParser.parse returns a string with no run of *)
(* three or more newline characters and no leading or trailing white       *)
(* space; for an empty or non-string input it returns the empty string.    *)
C36_ParsedOutputTrimmedAndCollapsed ==
    ppc = "returned" =>
        /\ ~HasTripleNewline(cleanedOutput)
        /\ cleanedOutput # <<>> =>
              (~IsWS(cleanedOutput[1]) /\ ~IsWS(cleanedOutput[Len(cleanedOutput)]))
        /\ (rawOutput = <<>> \/ rawOutput = NotAString) => cleanedOutput = <<>>
        /\ cleanedOutput # NotAString

\* A header after two line breaks and before a blank: the spacing put around
\* the header is collapsed and trimmed.
C36_HeaderSpacingCollapsed ==
    /\ ppc = "returned"
    /\ rawOutput = <<"x", NL, NL>> \o Header \o <<SP>>
    /\ cleanedOutput = <<"x", NL, NL>> \o Header

(***************************************************************************)
(* Input validation.                                                       *)
(***************************************************************************)
(* C37: if the document fails input validation (not a File, empty, larger  *)
(* than 100 MB, not a PDF) the scenario rejects before any recognition     *)
(* worker is created, any PDF is loaded or the inference engine is         *)
(* initialised, and no extraction-stage progress event is emitted.         *)
C37_InvalidInputRejectedBeforeAnyWork ==
    file # "valid" =>
        /\ ocr.createWorkerCalls = 0
        /\ ocr.workerPromise = "none"
        /\ quick.pc \in {"idle", "failed"} /\ ocr.pc \in {"idle", "failed"}
        /\ quick.pageNum = 0 /\ ocr.pageNum = 0
        /\ quick.log = <<>> /\ ocr.log = <<>>
        /\ llm.constructed = 0 /\ llm.initializeCalls = 0 /\ llm.gpu = "unchecked"
        /\ orch.pc = "settled" => orch.outcome = "rejected"

\* A combined call on a file that is too large was rejected for its input.
C37_TooLargeFileRejected ==
    /\ scenario = 5
    /\ file = "tooLarge"
    /\ orch.pc = "settled"
    /\ orch.outcome = "rejected"
    /\ orch.result = "input"
    /\ quick.err = "input" /\ ocr.err = "input"

(***************************************************************************)
(* The two syntheses.                                                      *)
(***************************************************************************)
(* C38: for every input text the legacy synthesis                          *)
(* (LegacyExtract2MDConverter._convertToMarkdownLogic) and the new         *)
(* synthesis (Extract2MDConverter._convertToMarkdown) return the same      *)
(* Markdown string.                                                        *)
C38_LegacyAndNewSynthesisAgree ==
    spc = "returned" => convertToMarkdownLogic(JoinLines(inputLines)) = finalMarkdown

\* A text with a table block of two lines, a paragraph and a heading was
\* synthesised, and the legacy synthesis returns the same three blocks.
C38_AllBlockKindsSynthesised ==
    /\ spc = "returned"
    /\ inputLines = << <<"a", SP, SP, "b">>, <<"a", SP, SP, "b">>,
                       <<"a", ".">>, <<"A", "B", "A">> >>
    /\ markdownOutputLines =
          << Fence, <<"a", SP, SP, "b">>, <<"a", SP, SP, "b">>, Fence, <<>>,
             <<"a", ".">>, <<>>, HeadingMark \o <<"A", "B", "A">>, <<>> >>
    /\ convertToMarkdownLogic(JoinLines(inputLines)) =
          JoinLines(<< Fence, <<"a", SP, SP, "b">>, <<"a", SP, SP, "b">>, Fence,
                       <<>>, <<"a", ".">>, <<>>, HeadingMark \o <<"A", "B", "A">> >>)

(***************************************************************************)
(* Calls in flight at the same time.                                       *)
(***************************************************************************)
\* Each call has its own recognition worker and its own inference engine,
\* and a worker or an engine is released by the call that made it only.
EachCallOwnsItsWorkerAndEngine ==
    /\ \A c, d \in CallIds :
          c # d =>
            /\ converters[c].worker # 0 => converters[c].worker # converters[d].worker
            /\ converters[c].webllmEngine # 0 =>
                  converters[c].webllmEngine # converters[d].webllmEngine
    /\ \A w \in 1..Len(tesseractWorkers) :
          /\ converters[tesseractWorkers[w].createdBy].worker = w
          /\ tesseractWorkers[w].terminatedBy \in {0, tesseractWorkers[w].createdBy}
    /\ \A e \in 1..Len(webllmEngines) :
          webllmEngines[e].cleanedBy \in {0, webllmEngines[e].createdBy}
    /\ \A c \in CallIds :
          converters[c].pc = "settled" => converters[c].outcome # "none"

\* The document of each call is opened with the worker source of the call's
\* own configuration.
OwnConfigurationOnly ==
    \A c \in CallIds :
        converters[c].documentWorkerSrc \in {"none", converters[c].pdfJsWorkerSrc}

(* C39: two scenario calls that are in flight at the same time share no    *)
(* mutable state: each call constructs its own converter, its own          *)
(* recognition worker and its own inference engine, one call's cleanup     *)
(* never releases the other's engine or worker, and one call's             *)
(* configuration never affects the other call.                             *)
C39_CallsShareNoMutableState ==
    EachCallOwnsItsWorkerAndEngine /\ OwnConfigurationOnly

(***************************************************************************)
(* The two accumulators of the synthesis.                                  *)
(***************************************************************************)
(* C40: throughout synthesis the paragraph accumulator and the table/code  *)
(* accumulator are never both non-empty at the same time, and both are     *)
(* empty when synthesis returns.                                           *)
C40_AccumulatorsNeverBothNonEmpty ==
    /\ ~(currentParagraphCollector # <<>> /\ potentialTableBlockLines # <<>>)
    /\ spc = "returned" =>
          currentParagraphCollector = <<>> /\ potentialTableBlockLines = <<>>

\* A table line came after a paragraph line: the paragraph was flushed to
\* the output before the table line was collected.
C40_TableLineAfterParagraphLine ==
    /\ spc = "loop"
    /\ i = 3
    /\ inputLines[1] = <<"a", ".">>
    /\ inputLines[2] = <<"a", SP, SP, "b">>
    /\ Len(inputLines) >= 3
    /\ currentParagraphCollector = <<>>
    /\ potentialTableBlockLines = << <<"a", SP, SP, "b">> >>
    /\ markdownOutputLines = << <<"a", ".">>, <<>> >>

====
